---- MODULE Spec2Model ----
(***************************************************************************)
(* Model of the forwarding engine of proxy-http-forward:                   *)
(*   pkg/handler/handler.go  HandleRequest, handleConnect, dialHost,       *)
(*                           tunnel, handleError, removeHopByHopHeaders    *)
(*   pkg/proxy/proxy.go      the fasthttp server configuration             *)
(* One CONNECT request is followed from HandleRequest to the end of its    *)
(* tunnel; the environment (the origin's answer to each dial, the two      *)
(* peers of an established tunnel) is nondeterministic.                    *)
(***************************************************************************)
EXTENDS Integers, Sequences, FiniteSets, TLC

\* ------------------------------------------------------------------ bounds
\* Largest configured proxy.max_dial_retries explored.
MaxRetries == 2
\* Largest number of bytes one peer of a tunnel sends.
MaxBytes == 2
\* Longest header collection explored.
MaxHeaders == 2

\* ------------------------------------------------------------ program constants
\* fasthttp.MethodConnect
MethodConnect == "CONNECT"
StatusOK == 200
StatusBadGateway == 502
\* ShutdownWithContext: done := make(chan error, 1)
DoneCap == 1

VARIABLES
    \* configuration (h.config)
    MaxDialRetries,
    \* position of the request's control flow
    pc,
    \* dialHost locals
    i, destConn, err,
    \* what the network saw of dialHost
    dials, sleeps,
    \* ctx.Response and the hijack handler registered on ctx
    respStatus, respBody, hijackHandler,
    \* what the client received as the HTTP response (0: nothing yet)
    clientResponse,
    \* metrics gauges
    activeConnections, tunnelConnections,
    \* the ordered record of calls to the observability sink and to the network
    trace,
    \* tunnel: sockets as seen locally, remote peers, copy loops, counters
    clientConnState, destConnState, clientCloses, destCloses,
    clientPeer, originPeer,
    c2sLoop, s2cLoop, c2sWritten, s2cWritten,
    clientToServer, serverToClient, wg,
    \* header sanitizer: the header collection as parsed, and as sanitized
    inHeader, header, hpc,
    \* HTTP forwarding path: ctx.Method(), the request body, the requests that
    \* reached the origin, the error of the dispatch (0: nil), the pooled
    \* response object, the header of ctx.Response, the pooled client held
    \* by the dispatch (0: none) and the calls of Pool.Get / Pool.Put
    reqMethod, reqBody, dispatched, upErr, resp, ctxRespHeader, client, gets, puts,
    \* upstream client pool: idle instances, number of instances constructed,
    \* and for each concurrent caller of DoTimeout its position and instance
    poolIdle, poolMade, ppc, holder, closedClients,
    \* CONNECT target: ctx.Host(), the host given to dialHost
    host, target, tpc,
    \* configuration check: the Config value, the result of Validate ("" is
    \* nil), and the position of the caller
    cfg, validateErr, vpc,
    \* server and main: position of main, listeners open, connections inside
    \* serveConn (s.open), hijacked connections with a running tunnel, the
    \* shutdown context expired, position of the goroutine that runs
    \* s.server.Shutdown(), exit code of the process (-1: running) and the
    \* connections that were still open when the process ended
    mainPc, listening, openConns, hijackedConns, ctxDone, srvShutdown, exitCode,
    cutConns,
    \* ShutdownWithContext: the metrics server ("none": disabled), the buffer
    \* of the channel done, and the error ShutdownWithContext returned
    \* ("": not returned yet, "nil": no error)
    metricsServer, done, shutdownErr,
    \* concurrent requests, each in a goroutine of its own: method, position
    \* and dial attempt of every request
    rkind, rpc, rattempt,
    \* handleHTTP: the request and response buffers taken from the buffer pool
    \* and not released yet, and how often each buffer was released
    acquired, released

connVars == <<MaxDialRetries, pc, i, destConn, err, dials, sleeps, respStatus,
              respBody, hijackHandler, clientResponse, activeConnections,
              tunnelConnections, trace>>
tunVars == <<clientConnState, destConnState, clientCloses, destCloses,
             clientPeer, originPeer, c2sLoop, s2cLoop, c2sWritten, s2cWritten,
             clientToServer, serverToClient, wg>>
hdrVars == <<inHeader, header, hpc>>
httpVars == <<reqMethod, reqBody, dispatched, upErr, resp, ctxRespHeader, client,
              gets, puts>>
poolVars == <<poolIdle, poolMade, ppc, holder, closedClients>>
targetVars == <<host, target, tpc>>
cfgVars == <<cfg, validateErr, vpc>>
sdVars == <<metricsServer, done, shutdownErr>>
shutVars == <<mainPc, listening, openConns, hijackedConns, ctxDone, srvShutdown,
              exitCode, cutConns, sdVars>>
concVars == <<rkind, rpc, rattempt>>
bufVars == <<acquired, released>>
moreVars == <<cfgVars, shutVars, concVars, bufVars>>
newVars == <<httpVars, poolVars, targetVars, moreVars>>
vars == <<connVars, tunVars, hdrVars, newVars>>

\* ------------------------------------------------------------------ events
\* One entry of the trace: ev is the kind of call, a/b/c its string labels,
\* n its numeric argument.
Event(ev, a, b, c, n) == [ev |-> ev, a |-> a, b |-> b, c |-> c, n |-> n]

Digits == <<"0", "1", "2", "3", "4", "5", "6", "7", "8", "9">>

\* fmt.Sprintf("%d", n) / strconv.Itoa(n) for n >= 0
RECURSIVE Itoa(_)
Itoa(n) == IF n < 10 THEN Digits[n + 1]
           ELSE Itoa(n \div 10) \o Digits[(n % 10) + 1]

\* metrics.RecordRequest(method, status, reqType, duration)
RecordRequest(method, status, reqType) == Event("request", method, status, reqType, 0)

\* metrics.RecordError(errType, reason)
RecordError(errType, reason) == Event("error", errType, reason, "", 0)

\* h.metrics.BytesSent.WithLabelValues(t).Add(n)
BytesSent(t, n) == Event("bytes_sent", t, "", "", n)

\* h.metrics.BytesReceived.WithLabelValues(t).Add(n)
BytesReceived(t, n) == Event("bytes_received", t, "", "", n)

\* handleError without its RecordError call.
handleErrorEvents_noRecordError(method, reqType, reason) ==
    <<RecordRequest(method, "502", reqType)>>

\* handleError: ctx.Error(msg, 502); RecordRequest(method, "502", reqType);
\* RecordError(reqType, reason).  Returns the events appended to the trace.
handleErrorEvents(method, reqType, reason) ==
    <<RecordRequest(method, "502", reqType), RecordError(reqType, reason)>>

\* ------------------------------------------------------------------ Init
ConnIdle ==
    /\ pc = "idle" /\ MaxDialRetries = 0
    /\ i = 0 /\ destConn = 0 /\ err = 0 /\ dials = 0 /\ sleeps = 0
    /\ respStatus = StatusOK /\ respBody = "" /\ hijackHandler = FALSE
    /\ clientResponse = 0
    /\ activeConnections = 0 /\ tunnelConnections = 0
    /\ trace = <<>>

TunIdle ==
    /\ clientConnState = "open" /\ destConnState = "none"
    /\ clientCloses = 0 /\ destCloses = 0
    /\ clientPeer = "open" /\ originPeer = "open"
    /\ c2sLoop = "notstarted" /\ s2cLoop = "notstarted"
    /\ c2sWritten = 0 /\ s2cWritten = 0
    /\ clientToServer = 0 /\ serverToClient = 0 /\ wg = 0

HdrIdle == inHeader = <<>> /\ header = <<>> /\ hpc = "idle"

\* The pooled response object before a response was read into it.
NoResponse == [status |-> 0, header |-> <<>>, body |-> ""]

HttpIdle ==
    /\ reqMethod = "CONNECT" /\ reqBody = "" /\ dispatched = <<>> /\ upErr = 0
    /\ resp = NoResponse /\ ctxRespHeader = <<>>
    /\ client = 0 /\ gets = 0 /\ puts = 0

PoolIdle ==
    poolIdle = {} /\ poolMade = 0 /\ ppc = <<>> /\ holder = <<>> /\ closedClients = {}

TargetIdle == host = <<>> /\ target = <<>> /\ tpc = "idle"

\* A configuration that passes Validate (the defaults of setDefaults, the
\* durations in seconds).
DefaultConfig ==
    [Address |-> ":8080", MaxConnsPerIP |-> 1, ReadTimeout |-> 1, WriteTimeout |-> 1,
     DialTimeout |-> 1, MetricsEnabled |-> TRUE, MetricsAddress |-> ":9090"]

CfgIdle == cfg = DefaultConfig /\ validateErr = "" /\ vpc = "idle"

ShutIdle ==
    /\ mainPc = "idle" /\ listening = FALSE /\ openConns = 0 /\ hijackedConns = 0
    /\ ctxDone = FALSE /\ srvShutdown = "notstarted" /\ exitCode = -1 /\ cutConns = 0
    /\ metricsServer = "none" /\ done = <<>> /\ shutdownErr = ""

ConcIdle == rkind = <<>> /\ rpc = <<>> /\ rattempt = <<>>

\* The buffers of handleHTTP: req and resp.
Buffers == {"req", "resp"}

BufIdle == acquired = {} /\ released = [b \in Buffers |-> 0]

MoreIdle == CfgIdle /\ ShutIdle /\ ConcIdle /\ BufIdle

NewIdle == HttpIdle /\ PoolIdle /\ TargetIdle /\ MoreIdle

\* A CONNECT request has been read by the server; the handler has not run yet.
Init ==
    /\ MaxDialRetries \in 0..MaxRetries
    /\ pc = "HandleRequest"
    /\ i = 0 /\ destConn = 0 /\ err = 0 /\ dials = 0 /\ sleeps = 0
    /\ respStatus = StatusOK /\ respBody = "" /\ hijackHandler = FALSE
    /\ clientResponse = 0
    /\ activeConnections = 0 /\ tunnelConnections = 0
    /\ trace = <<>>
    /\ TunIdle
    /\ HdrIdle
    /\ NewIdle

\* ------------------------------------------------------------------ actions
\* fasthttp's RequestCtx.Error(msg, statusCode): status and body of ctx.Response
ErrorBody == "Proxy error"

\* maxDials taken to be the retry count itself.
maxDials_offByOne(N) == N

\* dialHost: maxDials := h.config.MaxDialRetries + 1
maxDials(N) == N + 1

\* dialHost: the loop condition  i <= maxDials
dialLoopCond(k, N) == k <= maxDials(N)

\* The retry condition written  i <= maxDials.
dialRetryCond_inclusive(k, N) == k <= maxDials(N)

\* dialHost: the retry condition  i < maxDials
dialRetryCond(k, N) == k < maxDials(N)

\* Every method taken for CONNECT.
isConnect_always(m) == TRUE

\* HandleRequest: if method == fasthttp.MethodConnect
isConnect(m) == m = MethodConnect

\* Metrics.IncrementConnections: ActiveConnections.Inc()
IncrementConnections(g) == g + 1

\* The gauge left as it was.
DecrementConnections_noop(g) == g

\* Metrics.DecrementConnections: ActiveConnections.Dec(), deferred by
\* HandleRequest.
DecrementConnections(g) == g - 1

\* HandleRequest entry for method CONNECT up to the first evaluation of the
\* loop condition of dialHost: IncrementConnections, IncrementTunnels, i := 1.
HandleRequest ==
    /\ pc = "HandleRequest"
    /\ isConnect(reqMethod)
    /\ activeConnections' = IncrementConnections(activeConnections)
    /\ tunnelConnections' = tunnelConnections + 1
    /\ i' = 1
    /\ pc' = "dialLoop"
    /\ UNCHANGED <<MaxDialRetries, destConn, err, dials, sleeps, respStatus,
                   respBody, hijackHandler, clientResponse, trace>>
    /\ UNCHANGED <<tunVars, hdrVars, newVars>>

\* The loop without its break.
dialBreaks_never(e) == FALSE

\* dialHost: if err == nil { break }   (0 is the nil error)
dialBreaks(e) == e = 0

\* handleConnect without its error check.
dialFailed_never(e) == FALSE

\* handleConnect: if err != nil { handleError(...); return }
dialFailed(e) == e # 0

\* The reason counted from zero.
retryReason_fromZero(k) == "#" \o Itoa(k - 1)

\* dialHost: the reason of a retry-observed event, fmt.Sprintf("#%d", i)
retryReason(k) == "#" \o Itoa(k)

\* One iteration of dialHost's loop body up to the sleep: net.DialTimeout
\* answers ok or not; on err == nil break; otherwise, when i < maxDials,
\* handleError(..., "retry", err, "#i") and go to sleep, else i++.
\* A connection / an error is named by the attempt that produced it
\* (0: nil).
Dial(ok) ==
    /\ pc = "dialLoop"
    /\ dialLoopCond(i, MaxDialRetries)
    /\ dials' = dials + 1
    /\ destConn' = IF ok THEN i ELSE 0
    /\ err' = IF ok THEN 0 ELSE i
    /\ IF dialBreaks(err')
       THEN /\ trace' = Append(trace, Event("dial", IF ok THEN "ok" ELSE "fail", "", "", i))
            /\ pc' = "dialReturned"
            /\ UNCHANGED <<i, respStatus, respBody>>
       ELSE IF dialRetryCond(i, MaxDialRetries)
            THEN /\ trace' = Append(trace, Event("dial", IF ok THEN "ok" ELSE "fail", "", "", i))
                             \o handleErrorEvents("CONNECT", "retry", retryReason(i))
                 /\ respStatus' = StatusBadGateway /\ respBody' = ErrorBody
                 /\ pc' = "sleep"
                 /\ UNCHANGED i
            ELSE /\ trace' = Append(trace, Event("dial", IF ok THEN "ok" ELSE "fail", "", "", i))
                 /\ i' = i + 1
                 /\ pc' = "dialLoop"
                 /\ UNCHANGED <<respStatus, respBody>>
    /\ UNCHANGED <<MaxDialRetries, sleeps, hijackHandler, clientResponse,
                   activeConnections, tunnelConnections>>
    /\ destConnState' = IF ok THEN "open" ELSE destConnState
    /\ UNCHANGED <<clientConnState, clientCloses, destCloses, clientPeer,
                   originPeer, c2sLoop, s2cLoop, c2sWritten, s2cWritten,
                   clientToServer, serverToClient, wg>>
    /\ UNCHANGED <<hdrVars, newVars>>

\* time.Sleep(h.config.DialRetryDelay), then i++
DialSleep ==
    /\ pc = "sleep"
    /\ sleeps' = sleeps + 1
    /\ trace' = Append(trace, Event("sleep", "", "", "", i))
    /\ i' = i + 1
    /\ pc' = "dialLoop"
    /\ UNCHANGED <<MaxDialRetries, destConn, err, dials, respStatus, respBody,
                   hijackHandler, clientResponse, activeConnections,
                   tunnelConnections>>
    /\ UNCHANGED <<tunVars, hdrVars, newVars>>

\* The loop condition is false: dialHost returns (destConn, err).
DialLoopExit ==
    /\ pc = "dialLoop"
    /\ ~dialLoopCond(i, MaxDialRetries)
    /\ pc' = "dialReturned"
    /\ UNCHANGED <<MaxDialRetries, i, destConn, err, dials, sleeps, respStatus,
                   respBody, hijackHandler, clientResponse, activeConnections,
                   tunnelConnections, trace>>
    /\ UNCHANGED <<tunVars, hdrVars, newVars>>

\* handleConnect, err != nil: handleError(ctx, start, "CONNECT", "tunnel", err,
\* "dial_failed"), return; the deferred DecrementTunnels and
\* DecrementConnections run.
ConnectDialFailed ==
    /\ pc = "dialReturned"
    /\ dialFailed(err)
    /\ respStatus' = StatusBadGateway /\ respBody' = ErrorBody
    /\ trace' = trace \o handleErrorEvents("CONNECT", "tunnel", "dial_failed")
    /\ tunnelConnections' = tunnelConnections - 1
    /\ activeConnections' = DecrementConnections(activeConnections)
    /\ pc' = "handlerReturned"
    /\ UNCHANGED <<MaxDialRetries, i, destConn, err, dials, sleeps,
                   hijackHandler, clientResponse>>
    /\ UNCHANGED <<tunVars, hdrVars, newVars>>

\* The body left as it was.
SetBodyRawNil_kept(body) == body

\* ctx.Response.SetBodyRaw(nil): the body of the response is reset, whatever
\* it was.
SetBodyRawNil(body) == ""

\* handleConnect, err == nil: SetStatusCode(200), SetBodyRaw(nil),
\* ctx.Hijack(func ...) registers the tunnel as hijack handler, return; the
\* deferred DecrementTunnels and DecrementConnections run.
ConnectEstablished ==
    /\ pc = "dialReturned"
    /\ ~dialFailed(err)
    /\ respStatus' = StatusOK /\ respBody' = SetBodyRawNil(respBody)
    /\ hijackHandler' = TRUE
    /\ trace' = trace \o <<Event("status", "", "", "", StatusOK),
                           Event("hijack", "", "", "", 0)>>
    /\ tunnelConnections' = tunnelConnections - 1
    /\ activeConnections' = DecrementConnections(activeConnections)
    /\ pc' = "handlerReturned"
    /\ UNCHANGED <<MaxDialRetries, i, destConn, err, dials, sleeps,
                   clientResponse>>
    /\ UNCHANGED <<tunVars, hdrVars, newVars>>

\* The server writes ctx.Response to the client after the handler returned.
\* written = FALSE: the write fails (the client is gone); the hijack handler
\* is then not called.
ServerWriteResponse(written) ==
    /\ pc = "handlerReturned"
    /\ clientResponse' = IF written THEN respStatus ELSE 0
    /\ pc' = IF written /\ hijackHandler THEN "hijacked" ELSE "done"
    /\ UNCHANGED <<MaxDialRetries, i, destConn, err, dials, sleeps, respStatus,
                   respBody, hijackHandler, activeConnections,
                   tunnelConnections, trace>>
    /\ UNCHANGED <<tunVars, hdrVars, newVars>>

\* net.Conn.Close(): closing a closed connection changes nothing (it only
\* returns an error, which tunnel ignores).
Close(state) == IF state = "closed" THEN state ELSE "closed"

\* tunnel without  defer destConn.Close().
tunnelDefers_clientOnly == {"client"}

\* tunnel: the connections its deferred calls close
\*   defer clientConn.Close(); defer destConn.Close()
tunnelDefers == {"client", "dest"}

\* A wait that returns as soon as one of the two loops is done.
wgWaitReturns_first(w) == w <= 1

\* tunnel: wg.Wait() returns when the WaitGroup counter is zero
wgWaitReturns(w) == w = 0

\* A tunnel reported as failed.
tunnelMetrics_failed(c2s, s2c) ==
    <<RecordRequest("CONNECT", "502", "tunnel"),
      RecordError("tunnel", "io_error"),
      BytesSent("tunnel", s2c),
      BytesReceived("tunnel", c2s)>>

\* The two byte counters exchanged.
tunnelMetrics_swapped(c2s, s2c) ==
    <<RecordRequest("CONNECT", "200", "tunnel"),
      BytesSent("tunnel", c2s),
      BytesReceived("tunnel", s2c)>>

\* tunnel: the metrics written after wg.Wait()
\*   RecordRequest("CONNECT", "200", "tunnel", duration)
\*   BytesSent("tunnel").Add(serverToClient)
\*   BytesReceived("tunnel").Add(clientToServer)
tunnelMetrics(c2s, s2c) ==
    <<RecordRequest("CONNECT", "200", "tunnel"),
      BytesSent("tunnel", s2c),
      BytesReceived("tunnel", c2s)>>

\* The server calls the hijack handler with the client's connection:
\* tunnel registers its deferred closes, wg.Add(1), go client->server copy,
\* wg.Add(1), go server->client copy.
TunnelStart ==
    /\ pc = "hijacked"
    /\ destConn # 0
    /\ wg' = 2
    /\ c2sLoop' = "running" /\ s2cLoop' = "running"
    /\ trace' = trace \o <<Event("hijacked", "", "", "", 0),
                           Event("copy_start", "c2s", "", "", 0),
                           Event("copy_start", "s2c", "", "", 0)>>
    /\ pc' = "relaying"
    /\ UNCHANGED <<MaxDialRetries, i, destConn, err, dials, sleeps, respStatus,
                   respBody, hijackHandler, clientResponse, activeConnections,
                   tunnelConnections>>
    /\ UNCHANGED <<clientConnState, destConnState, clientCloses, destCloses,
                   clientPeer, originPeer, c2sWritten, s2cWritten,
                   clientToServer, serverToClient>>
    /\ UNCHANGED <<hdrVars, newVars>>

\* The hijack handler is called with destConn == nil: the deferred
\* destConn.Close() is a call through a nil interface, the goroutine panics
\* and the process ends.
TunnelNilPanic ==
    /\ pc = "hijacked"
    /\ destConn = 0
    /\ pc' = "panicked"
    /\ trace' = Append(trace, Event("panic", "nil destConn", "", "", 0))
    /\ UNCHANGED <<MaxDialRetries, i, destConn, err, dials, sleeps, respStatus,
                   respBody, hijackHandler, clientResponse, activeConnections,
                   tunnelConnections>>
    /\ UNCHANGED <<tunVars, hdrVars, newVars>>

\* The client's end of the tunnel: it closes its connection (the proxy reads
\* end-of-stream) or the connection breaks (reads and writes fail).
ClientPeer(how) ==
    /\ pc = "relaying"
    /\ clientPeer = "open"
    /\ clientPeer' = how
    /\ UNCHANGED connVars
    /\ UNCHANGED <<clientConnState, destConnState, clientCloses, destCloses,
                   originPeer, c2sLoop, s2cLoop, c2sWritten, s2cWritten,
                   clientToServer, serverToClient, wg>>
    /\ UNCHANGED <<hdrVars, newVars>>

\* The origin's end of the tunnel, likewise.
OriginPeer(how) ==
    /\ pc = "relaying"
    /\ originPeer = "open"
    /\ originPeer' = how
    /\ UNCHANGED connVars
    /\ UNCHANGED <<clientConnState, destConnState, clientCloses, destCloses,
                   clientPeer, c2sLoop, s2cLoop, c2sWritten, s2cWritten,
                   clientToServer, serverToClient, wg>>
    /\ UNCHANGED <<hdrVars, newVars>>

\* io.Copy(destConn, clientConn), one round: the client sends a byte, the
\* loop reads it and writes it to the origin.
C2SCopy ==
    /\ c2sLoop = "running"
    /\ clientPeer = "open" /\ clientConnState = "open"
    /\ originPeer # "reset" /\ destConnState = "open"
    /\ c2sWritten < MaxBytes
    /\ c2sWritten' = c2sWritten + 1
    /\ UNCHANGED connVars
    /\ UNCHANGED <<clientConnState, destConnState, clientCloses, destCloses,
                   clientPeer, originPeer, c2sLoop, s2cLoop, s2cWritten,
                   clientToServer, serverToClient, wg>>
    /\ UNCHANGED <<hdrVars, newVars>>

\* io.Copy(destConn, clientConn) returns because the read of clientConn
\* returned end-of-stream or an error; clientToServer is assigned, wg.Done().
C2SReadEnd ==
    /\ c2sLoop = "running"
    /\ clientPeer \in {"eof", "reset"} \/ clientConnState = "closed"
    /\ clientToServer' = c2sWritten
    /\ c2sLoop' = "done"
    /\ wg' = wg - 1
    /\ UNCHANGED connVars
    /\ UNCHANGED <<clientConnState, destConnState, clientCloses, destCloses,
                   clientPeer, originPeer, s2cLoop, c2sWritten, s2cWritten,
                   serverToClient>>
    /\ UNCHANGED <<hdrVars, newVars>>

\* io.Copy(destConn, clientConn) returns because the client sent a byte and
\* the write to destConn failed; clientToServer is assigned, wg.Done().
C2SWriteFail ==
    /\ c2sLoop = "running"
    /\ clientPeer = "open" /\ clientConnState = "open"
    /\ originPeer = "reset" \/ destConnState = "closed"
    /\ clientToServer' = c2sWritten
    /\ c2sLoop' = "done"
    /\ wg' = wg - 1
    /\ UNCHANGED connVars
    /\ UNCHANGED <<clientConnState, destConnState, clientCloses, destCloses,
                   clientPeer, originPeer, s2cLoop, c2sWritten, s2cWritten,
                   serverToClient>>
    /\ UNCHANGED <<hdrVars, newVars>>

\* io.Copy(clientConn, destConn), one round.
S2CCopy ==
    /\ s2cLoop = "running"
    /\ originPeer = "open" /\ destConnState = "open"
    /\ clientPeer # "reset" /\ clientConnState = "open"
    /\ s2cWritten < MaxBytes
    /\ s2cWritten' = s2cWritten + 1
    /\ UNCHANGED connVars
    /\ UNCHANGED <<clientConnState, destConnState, clientCloses, destCloses,
                   clientPeer, originPeer, c2sLoop, s2cLoop, c2sWritten,
                   clientToServer, serverToClient, wg>>
    /\ UNCHANGED <<hdrVars, newVars>>

\* io.Copy(clientConn, destConn) returns because the read of destConn
\* returned end-of-stream or an error; serverToClient is assigned, wg.Done().
S2CReadEnd ==
    /\ s2cLoop = "running"
    /\ originPeer \in {"eof", "reset"} \/ destConnState = "closed"
    /\ serverToClient' = s2cWritten
    /\ s2cLoop' = "done"
    /\ wg' = wg - 1
    /\ UNCHANGED connVars
    /\ UNCHANGED <<clientConnState, destConnState, clientCloses, destCloses,
                   clientPeer, originPeer, c2sLoop, c2sWritten, s2cWritten,
                   clientToServer>>
    /\ UNCHANGED <<hdrVars, newVars>>

\* io.Copy(clientConn, destConn) returns because the origin sent a byte and
\* the write to clientConn failed; serverToClient is assigned, wg.Done().
S2CWriteFail ==
    /\ s2cLoop = "running"
    /\ originPeer = "open" /\ destConnState = "open"
    /\ clientPeer = "reset" \/ clientConnState = "closed"
    /\ serverToClient' = s2cWritten
    /\ s2cLoop' = "done"
    /\ wg' = wg - 1
    /\ UNCHANGED connVars
    /\ UNCHANGED <<clientConnState, destConnState, clientCloses, destCloses,
                   clientPeer, originPeer, c2sLoop, c2sWritten, s2cWritten,
                   clientToServer>>
    /\ UNCHANGED <<hdrVars, newVars>>

\* tunnel: wg.Wait() returns, the metrics are recorded and the log is written.
TunnelRecord ==
    /\ pc = "relaying"
    /\ wgWaitReturns(wg)
    /\ trace' = trace \o tunnelMetrics(clientToServer, serverToClient)
    /\ pc' = "recorded"
    /\ UNCHANGED <<MaxDialRetries, i, destConn, err, dials, sleeps, respStatus,
                   respBody, hijackHandler, clientResponse, activeConnections,
                   tunnelConnections>>
    /\ UNCHANGED <<tunVars, hdrVars, newVars>>

\* tunnel returns: the deferred destConn.Close() and clientConn.Close() run.
TunnelReturn ==
    /\ pc = "recorded"
    /\ destConnState' = IF "dest" \in tunnelDefers THEN Close(destConnState)
                        ELSE destConnState
    /\ destCloses' = IF "dest" \in tunnelDefers THEN destCloses + 1 ELSE destCloses
    /\ clientConnState' = IF "client" \in tunnelDefers THEN Close(clientConnState)
                          ELSE clientConnState
    /\ clientCloses' = IF "client" \in tunnelDefers THEN clientCloses + 1
                       ELSE clientCloses
    /\ pc' = "tunnelReturned"
    /\ UNCHANGED <<MaxDialRetries, i, destConn, err, dials, sleeps, respStatus,
                   respBody, hijackHandler, clientResponse, activeConnections,
                   tunnelConnections, trace>>
    /\ UNCHANGED <<clientPeer, originPeer, c2sLoop, s2cLoop, c2sWritten,
                   s2cWritten, clientToServer, serverToClient, wg>>
    /\ UNCHANGED <<hdrVars, newVars>>

\* After the hijack handler returned the server closes the hijacked
\* connection itself: a further close of a connection tunnel already closed.
HijackConnClose ==
    /\ pc = "tunnelReturned"
    /\ clientConnState' = Close(clientConnState)
    /\ pc' = "done"
    /\ UNCHANGED <<MaxDialRetries, i, destConn, err, dials, sleeps, respStatus,
                   respBody, hijackHandler, clientResponse, activeConnections,
                   tunnelConnections, trace>>
    /\ UNCHANGED <<destConnState, clientCloses, destCloses, clientPeer,
                   originPeer, c2sLoop, s2cLoop, c2sWritten, s2cWritten,
                   clientToServer, serverToClient, wg>>
    /\ UNCHANGED <<hdrVars, newVars>>

\* The steps the proxy takes by itself.
ProxyStep ==
    \/ HandleRequest
    \/ \E ok \in BOOLEAN : Dial(ok)
    \/ DialSleep
    \/ DialLoopExit
    \/ ConnectDialFailed
    \/ ConnectEstablished
    \/ \E written \in BOOLEAN : ServerWriteResponse(written)
    \/ TunnelStart
    \/ C2SReadEnd
    \/ S2CReadEnd
    \/ TunnelRecord
    \/ TunnelReturn
    \/ HijackConnClose

\* The steps that need a peer of the tunnel to act (to send, close or break).
PeerStep ==
    \/ \E how \in {"eof", "reset"} : ClientPeer(how)
    \/ \E how \in {"eof", "reset"} : OriginPeer(how)
    \/ C2SCopy
    \/ C2SWriteFail
    \/ S2CCopy
    \/ S2CWriteFail

Next == ProxyStep \/ PeerStep

Spec == Init /\ [][Next]_vars

\* The retry count as the configuration can give it: Validate does not look
\* at it, so it may be negative.
AnyRetryInit ==
    /\ MaxDialRetries \in (0 - 1)..MaxRetries
    /\ pc = "HandleRequest"
    /\ i = 0 /\ destConn = 0 /\ err = 0 /\ dials = 0 /\ sleeps = 0
    /\ respStatus = StatusOK /\ respBody = "" /\ hijackHandler = FALSE
    /\ clientResponse = 0
    /\ activeConnections = 0 /\ tunnelConnections = 0
    /\ trace = <<>>
    /\ TunIdle
    /\ HdrIdle
    /\ NewIdle

AnyRetryNext == Next \/ TunnelNilPanic

AnyRetrySpec == AnyRetryInit /\ [][AnyRetryNext]_vars

\* The proxy's own steps are always taken eventually (goroutines are
\* scheduled, sleeps end, dials time out); the peers owe nothing.
FairSpec == Spec /\ WF_vars(ProxyStep)

\* ------------------------------------------------------------------ headers
\* A header name is the sequence of its characters; a header is <<name, value>>;
\* a header collection is the sequence of headers in the order received.
UpperLetters == <<"A", "B", "C", "D", "E", "F", "G", "H", "I", "J", "K", "L", "M", "N", "O", "P", "Q", "R", "S", "T", "U", "V", "W", "X", "Y", "Z">>
LowerLetters == <<"a", "b", "c", "d", "e", "f", "g", "h", "i", "j", "k", "l", "m", "n", "o", "p", "q", "r", "s", "t", "u", "v", "w", "x", "y", "z">>

toLower(c) == IF \E k \in 1..26 : UpperLetters[k] = c
              THEN LowerLetters[CHOOSE k \in 1..26 : UpperLetters[k] = c]
              ELSE c

toUpper(c) == IF \E k \in 1..26 : LowerLetters[k] = c
              THEN UpperLetters[CHOOSE k \in 1..26 : LowerLetters[k] = c]
              ELSE c

\* The names compared without regard to case.
lowerName(name) == [k \in DOMAIN name |-> toLower(name[k])]

\* var hopByHopHeaders = []string{...}
hopByHopHeaders ==
    << <<"C", "o", "n", "n", "e", "c", "t", "i", "o", "n">>,
       <<"K", "e", "e", "p", "-", "A", "l", "i", "v", "e">>,
       <<"P", "r", "o", "x", "y", "-", "A", "u", "t", "h", "e", "n", "t", "i", "c", "a", "t", "e">>,
       <<"P", "r", "o", "x", "y", "-", "A", "u", "t", "h", "o", "r", "i", "z", "a", "t", "i", "o", "n">>,
       <<"T", "E">>,
       <<"T", "r", "a", "i", "l", "e", "r", "s">>,
       <<"T", "r", "a", "n", "s", "f", "e", "r", "-", "E", "n", "c", "o", "d", "i", "n", "g">>,
       <<"U", "p", "g", "r", "a", "d", "e">> >>

\* fasthttp.Server{DisableHeaderNamesNormalizing: true}: the server keeps the
\* names of the request headers as received.
ServerDisableHeaderNamesNormalizing == TRUE

\* fasthttp.Client{...} of the pool does not set DisableHeaderNamesNormalizing:
\* the client normalizes the names of the response headers it reads.
ClientDisableHeaderNamesNormalizing == FALSE

\* fasthttp's header-name normalization: the first letter and every letter
\* after '-' in upper case, all others in lower case; nothing when disabled.
normalizeHeaderKey(name, disable) ==
    IF disable THEN name
    ELSE [k \in DOMAIN name |->
            IF k = 1 \/ name[k - 1] = "-" THEN toUpper(name[k]) ELSE toLower(name[k])]

\* The header collection as stored by the side that read it from the wire.
parseHeader(wire, disable) ==
    [k \in DOMAIN wire |-> <<normalizeHeaderKey(wire[k][1], disable), wire[k][2]>>]

\* header.Del(key): the key is normalized unless normalizing is disabled, and
\* every header stored under exactly that name is removed, the others keeping
\* their order.
Del(h, key, disable) ==
    LET k == normalizeHeaderKey(key, disable)
        keep(kv) == kv[1] # k
    IN  SelectSeq(h, keep)

\* for _, h := range hopByHopHeaders { header.Del(h) }
RECURSIVE delEach(_, _, _)
delEach(h, n, disable) ==
    IF n > Len(hopByHopHeaders) THEN h
    ELSE delEach(Del(h, hopByHopHeaders[n], disable), n + 1, disable)

\* removeHopByHopHeaders(&req.Header): req.Header was copied from the
\* server's request, whose names are not normalized.
removeHopByHopHeaders(h) == delEach(h, 1, ServerDisableHeaderNamesNormalizing)

\* removeResponseHopByHopHeaders(&ctx.Response.Header): the header was copied
\* from the pooled client's response, whose names are normalized.
removeResponseHopByHopHeaders(h) == delEach(h, 1, ClientDisableHeaderNamesNormalizing)

\* Header names and values as they arrive on the wire.
WireNames ==
    { <<"T", "E">>,
       <<"t", "e">>,
       <<"U", "p", "g", "r", "a", "d", "e">>,
       <<"u", "P", "G", "R", "A", "D", "E">>,
       <<"p", "r", "o", "x", "y", "-", "a", "u", "t", "h", "o", "r", "i", "z", "a", "t", "i", "o", "n">>,
       <<"A", "c", "c", "e", "p", "t">>,
       <<"x", "-", "a">> }
WireValues == {"v1", "v2"}
WireHeader == WireNames \X WireValues

RECURSIVE SeqsUpTo(_, _)
SeqsUpTo(S, n) ==
    IF n = 0 THEN {<<>>}
    ELSE LET shorter == SeqsUpTo(S, n - 1)
         IN  shorter \cup {Append(q, x) : q \in {r \in shorter : Len(r) = n - 1}, x \in S}

\* The request (hpc = "request") or response (hpc = "response") header as it
\* was parsed from the wire.
HdrInit ==
    /\ hpc \in {"request", "response"}
    /\ \E wire \in SeqsUpTo(WireHeader, MaxHeaders) :
          inHeader = parseHeader(wire,
                        IF hpc = "request" THEN ServerDisableHeaderNamesNormalizing
                        ELSE ClientDisableHeaderNamesNormalizing)
    /\ header = inHeader
    /\ ConnIdle /\ TunIdle /\ NewIdle

\* handleHTTP: removeHopByHopHeaders(&req.Header) on the copied request
SanitizeRequest ==
    /\ hpc = "request"
    /\ header' = removeHopByHopHeaders(header)
    /\ hpc' = "requestSanitized"
    /\ UNCHANGED <<inHeader, connVars, tunVars, newVars>>

\* handleHTTP: removeResponseHopByHopHeaders(&ctx.Response.Header)
SanitizeResponse ==
    /\ hpc = "response"
    /\ header' = removeResponseHopByHopHeaders(header)
    /\ hpc' = "responseSanitized"
    /\ UNCHANGED <<inHeader, connVars, tunVars, newVars>>

HdrNext == SanitizeRequest \/ SanitizeResponse

SanitizeSpec == HdrInit /\ [][HdrNext]_vars

\* ------------------------------------------------------------------ HTTP path
XForwardedFor == <<"X", "-", "F", "o", "r", "w", "a", "r", "d", "e", "d", "-", "F", "o", "r">>

\* ctx.RemoteIP().String()
ClientIP == "10.0.0.5"

\* header.Peek(key): the value of the first header stored under exactly the
\* (normalized unless disabled) key, "" when there is none.
Peek(h, key, disable) ==
    LET k == normalizeHeaderKey(key, disable)
        hits == {n \in DOMAIN h : h[n][1] = k}
    IN  IF hits = {} THEN ""
        ELSE h[CHOOSE n \in hits : \A m \in hits : n <= m][2]

\* header.Set(key, value): the first header stored under exactly the key gets
\* the value (further headers of that name stay); appended when there is none.
Set(h, key, value, disable) ==
    LET k == normalizeHeaderKey(key, disable)
        hits == {n \in DOMAIN h : h[n][1] = k}
    IN  IF hits = {} THEN Append(h, <<k, value>>)
        ELSE LET f == CHOOSE n \in hits : \A m \in hits : n <= m
             IN  [h EXCEPT ![f] = <<k, value>>]

\* handleHTTP: if xff := Peek("X-Forwarded-For"); xff != "" then
\* Set("X-Forwarded-For", xff + ", " + clientIP) else Set(..., clientIP)
addForwardedFor(h, ip) ==
    LET xff == Peek(h, XForwardedFor, ServerDisableHeaderNamesNormalizing)
    IN  IF xff # ""
        THEN Set(h, XForwardedFor, xff \o ", " \o ip, ServerDisableHeaderNamesNormalizing)
        ELSE Set(h, XForwardedFor, ip, ServerDisableHeaderNamesNormalizing)

\* Get that forgets to take the instance out of the pool.
poolAfterGet_keeps(idle, c) == idle

\* Get that has no New function: only idle instances.
poolGetChoices_noNew(idle, made) == idle

\* sync.Pool.Get: some idle instance, or a new one from New (named by the
\* number of instances constructed so far plus one).
poolGetChoices(idle, made) == idle \cup {made + 1}

\* sync.Pool.Get takes the instance it returns out of the pool.
poolAfterGet(idle, c) == idle \ {c}

\* sync.Pool.Put
poolAfterPut(idle, c) == idle \cup {c}

\* handleHTTP without its error check.
upstreamFailed_never(e) == FALSE

\* handleHTTP: if err != nil { handleError(...); return }
upstreamFailed(e) == e # 0

\* What the origin can answer: any status (redirects included), some header
\* lines on the wire, some body.
OriginStatuses == {200, 302, 404}
OriginWires ==
    { <<>>,
      << <<<<"t", "e">>, "v1">>, <<<<"A", "c", "c", "e", "p", "t">>, "v1">> >>,
      << <<<<"A", "c", "c", "e", "p", "t">>, "v2">>, <<<<"U", "p", "g", "r", "a", "d", "e">>, "v1">> >> }
OriginBodies == {"", "ok"}
OriginResponses ==
    { [status |-> st,
       header |-> parseHeader(w, ClientDisableHeaderNamesNormalizing),
       body |-> b] : st \in OriginStatuses, w \in OriginWires, b \in OriginBodies }

\* The ways client.DoTimeout fails: the connection is refused (nothing
\* reaches the origin, error 1) or the response times out (the request was
\* sent, error 2).
DispatchFailures == {"refused", "timeout"}

\* Request headers on the wire of a non-CONNECT request.
HttpWireHeader ==
    { <<<<"T", "E">>, "a">>, <<<<"t", "e">>, "a">>, <<<<"A", "c", "c", "e", "p", "t">>, "a">>,
      <<XForwardedFor, "1.1.1.1">>, <<XForwardedFor, "2.2.2.2">>,
      <<XForwardedFor, "">> }

\* A non-CONNECT request has been read by the server; the pool holds the
\* instances earlier requests put back.
\* string(ctx.Host()) of a non-CONNECT request: empty when the request has
\* neither an absolute target nor a Host header.
RequestHosts == {<<>>, <<"a">>}

HttpInit ==
    /\ \E mb \in {<<"GET", "">>, <<"POST", "data">>} :
          reqMethod = mb[1] /\ reqBody = mb[2]
    /\ \E wire \in SeqsUpTo(HttpWireHeader, MaxHeaders) :
          inHeader = parseHeader(wire, ServerDisableHeaderNamesNormalizing)
    /\ header = <<>> /\ hpc = "idle"
    /\ MaxDialRetries = MaxRetries
    /\ pc = "HandleRequest"
    /\ i = 0 /\ destConn = 0 /\ err = 0 /\ dials = 0 /\ sleeps = 0
    /\ respStatus = StatusOK /\ respBody = "" /\ hijackHandler = FALSE
    /\ clientResponse = 0
    /\ activeConnections = 0 /\ tunnelConnections = 0
    /\ trace = <<>>
    /\ TunIdle
    /\ dispatched = <<>> /\ upErr = 0 /\ resp = NoResponse /\ ctxRespHeader = <<>>
    /\ client = 0 /\ gets = 0 /\ puts = 0
    /\ poolMade \in 0..1 /\ poolIdle = 1..poolMade
    /\ ppc = <<>> /\ holder = <<>> /\ closedClients = {}
    /\ host \in RequestHosts /\ target = <<>> /\ tpc = "idle"
    /\ MoreIdle

\* The outbound request sharing the header of the inbound one.
inboundAfterCopy_shared(inbound, outbound) == outbound

\* handleHTTP: ctx.Request.CopyTo(req) makes req a copy, so what is done to
\* req afterwards leaves the header of ctx.Request as it was.
inboundAfterCopy(inbound, outbound) == inbound

\* fasthttp.AcquireRequest() and fasthttp.AcquireResponse(): the buffers held
\* after handleHTTP took req and resp from the buffer pool.
acquireBuffers(held) == held \cup {"req", "resp"}

\* Only the response buffer released.
deferredReleases_respOnly == {"resp"}

\* The buffers released by the deferred calls of handleHTTP:
\* defer fasthttp.ReleaseRequest(req); defer fasthttp.ReleaseResponse(resp).
deferredReleases == {"req", "resp"}

\* The release counts after the buffers bs were released.
releaseBuffers(rel, bs) ==
    [b \in DOMAIN rel |-> IF b \in bs THEN rel[b] + 1 ELSE rel[b]]

\* HandleRequest for a method other than CONNECT, and handleHTTP up to the
\* dispatch: IncrementConnections, AcquireRequest/AcquireResponse,
\* ctx.Request.CopyTo(req), removeHopByHopHeaders(&req.Header), the
\* X-Forwarded-For update.
HttpPrepare ==
    /\ pc = "HandleRequest"
    /\ ~isConnect(reqMethod)
    /\ activeConnections' = IncrementConnections(activeConnections)
    /\ header' = addForwardedFor(removeHopByHopHeaders(inHeader), ClientIP)
    /\ inHeader' = inboundAfterCopy(inHeader, header')
    /\ pc' = "doTimeout"
    /\ UNCHANGED <<MaxDialRetries, i, destConn, err, dials, sleeps, respStatus,
                   respBody, hijackHandler, clientResponse, tunnelConnections,
                   trace>>
    /\ acquired' = acquireBuffers(acquired)
    /\ UNCHANGED <<hpc, tunVars, httpVars, poolVars, targetVars, cfgVars, shutVars,
                   concVars, released>>

\* Pool.DoTimeout: client := p.Get()
HttpPoolGet ==
    /\ pc = "doTimeout"
    /\ \E c \in poolGetChoices(poolIdle, poolMade) :
          /\ client' = c
          /\ poolIdle' = poolAfterGet(poolIdle, c)
          /\ poolMade' = IF c > poolMade THEN c ELSE poolMade
    /\ gets' = gets + 1
    /\ pc' = "got"
    /\ UNCHANGED <<MaxDialRetries, i, destConn, err, dials, sleeps, respStatus,
                   respBody, hijackHandler, clientResponse, activeConnections,
                   tunnelConnections, trace>>
    /\ UNCHANGED <<reqMethod, reqBody, dispatched, upErr, resp, ctxRespHeader, puts>>
    /\ UNCHANGED <<ppc, holder, closedClients, tunVars, hdrVars, targetVars, moreVars>>

\* What the pooled response object may hold when the dispatch failed after
\* a part of the origin's response was read.
PartialResponse ==
    [status |-> 200,
     header |-> parseHeader(<< <<<<"A", "c", "c", "e", "p", "t">>, "v1">> >>, ClientDisableHeaderNamesNormalizing),
     body |-> "o"]

\* Pool.DoTimeout: client.DoTimeout(req, resp, timeout) fails.
HttpDoFails(how) ==
    /\ pc = "got"
    /\ dispatched' = IF how = "refused" THEN dispatched ELSE Append(dispatched, header)
    /\ upErr' = IF how = "refused" THEN 1 ELSE 2
    /\ resp' = IF how = "refused" THEN resp ELSE PartialResponse
    /\ trace' = Append(trace, Event("dispatch", how, "", "", client))
    /\ pc' = "did"
    /\ UNCHANGED <<MaxDialRetries, i, destConn, err, dials, sleeps, respStatus,
                   respBody, hijackHandler, clientResponse, activeConnections,
                   tunnelConnections>>
    /\ UNCHANGED <<reqMethod, reqBody, ctxRespHeader, client, gets, puts>>
    /\ UNCHANGED <<poolVars, tunVars, hdrVars, targetVars, moreVars>>

\* Pool.DoTimeout: client.DoTimeout(req, resp, timeout) reads the origin's
\* response r into resp.
HttpDoSucceeds(r) ==
    /\ pc = "got"
    /\ dispatched' = Append(dispatched, header)
    /\ upErr' = 0
    /\ resp' = r
    /\ trace' = Append(trace, Event("dispatch", "ok", "", "", client))
    /\ pc' = "did"
    /\ UNCHANGED <<MaxDialRetries, i, destConn, err, dials, sleeps, respStatus,
                   respBody, hijackHandler, clientResponse, activeConnections,
                   tunnelConnections>>
    /\ UNCHANGED <<reqMethod, reqBody, ctxRespHeader, client, gets, puts>>
    /\ UNCHANGED <<poolVars, tunVars, hdrVars, targetVars, moreVars>>

\* Pool.DoTimeout returns: the deferred p.Put(client) runs.
HttpPoolPut ==
    /\ pc = "did"
    /\ poolIdle' = poolAfterPut(poolIdle, client)
    /\ client' = 0
    /\ puts' = puts + 1
    /\ pc' = "dispatchReturned"
    /\ UNCHANGED <<MaxDialRetries, i, destConn, err, dials, sleeps, respStatus,
                   respBody, hijackHandler, clientResponse, activeConnections,
                   tunnelConnections, trace>>
    /\ UNCHANGED <<reqMethod, reqBody, dispatched, upErr, resp, ctxRespHeader, gets>>
    /\ UNCHANGED <<poolMade, ppc, holder, closedClients, tunVars, hdrVars, targetVars, moreVars>>

\* A failed dispatch tried again instead of returning.
httpFailureNext_retry == "doTimeout"

\* handleHTTP: the return after handleError: the handler ends.
httpFailureNext == "handlerReturned"

\* A completion event with the status fixed to "200".
httpMetrics_fixedStatus(m, st, rb, qb) ==
    <<RecordRequest(m, "200", "http"),
      BytesSent("http", Len(rb)),
      BytesReceived("http", Len(qb))>>

\* handleHTTP: the metrics of a forwarded request
\*   RecordRequest(method, strconv.Itoa(resp.StatusCode()), "http", duration)
\*   BytesSent("http").Add(len(resp.Body()))
\*   BytesReceived("http").Add(len(req.Body()))
httpMetrics(m, st, rb, qb) ==
    <<RecordRequest(m, Itoa(st), "http"),
      BytesSent("http", Len(rb)),
      BytesReceived("http", Len(qb))>>

\* handleHTTP, err != nil: handleError(ctx, start, method, "http", err,
\* "upstream_request_failed"), return; the deferred releases and
\* DecrementConnections run.
HttpFailed ==
    /\ pc = "dispatchReturned"
    /\ upstreamFailed(upErr)
    /\ respStatus' = StatusBadGateway /\ respBody' = ErrorBody
    /\ trace' = trace \o handleErrorEvents(reqMethod, "http", "upstream_request_failed")
    /\ activeConnections' = DecrementConnections(activeConnections)
    /\ pc' = httpFailureNext
    /\ acquired' = acquired \ deferredReleases
    /\ released' = releaseBuffers(released, deferredReleases)
    /\ UNCHANGED <<MaxDialRetries, i, destConn, err, dials, sleeps,
                   hijackHandler, clientResponse, tunnelConnections>>
    /\ UNCHANGED <<tunVars, hdrVars, httpVars, poolVars, targetVars, cfgVars,
                   shutVars, concVars>>

\* handleHTTP, err == nil: resp.CopyTo(&ctx.Response),
\* removeResponseHopByHopHeaders(&ctx.Response.Header),
\* RecordRequest(method, strconv.Itoa(resp.StatusCode()), "http", duration),
\* BytesSent("http").Add(len(resp.Body())),
\* BytesReceived("http").Add(len(req.Body())), return; the deferred releases
\* and DecrementConnections run.
HttpSucceeded ==
    /\ pc = "dispatchReturned"
    /\ ~upstreamFailed(upErr)
    /\ respStatus' = resp.status /\ respBody' = resp.body
    /\ ctxRespHeader' = removeResponseHopByHopHeaders(resp.header)
    /\ trace' = trace \o httpMetrics(reqMethod, resp.status, resp.body, reqBody)
    /\ activeConnections' = DecrementConnections(activeConnections)
    /\ pc' = "handlerReturned"
    /\ UNCHANGED <<MaxDialRetries, i, destConn, err, dials, sleeps,
                   hijackHandler, clientResponse, tunnelConnections>>
    /\ acquired' = acquired \ deferredReleases
    /\ released' = releaseBuffers(released, deferredReleases)
    /\ UNCHANGED <<reqMethod, reqBody, dispatched, upErr, resp, client, gets, puts>>
    /\ UNCHANGED <<poolVars, tunVars, hdrVars, targetVars, cfgVars, shutVars,
                   concVars>>

HttpNext ==
    \/ HttpPrepare
    \/ HttpPoolGet
    \/ \E how \in DispatchFailures : HttpDoFails(how)
    \/ \E r \in OriginResponses : HttpDoSucceeds(r)
    \/ HttpPoolPut
    \/ HttpFailed
    \/ HttpSucceeded
    \/ \E written \in BOOLEAN : ServerWriteResponse(written)

HttpSpec == HttpInit /\ [][HttpNext]_vars

\* A request of either kind enters HandleRequest.
ProxyInit == Init \/ HttpInit
ProxyNext == Next \/ HttpNext
ProxySpec == ProxyInit /\ [][ProxyNext]_vars

\* ------------------------------------------------------------------ claims
\* Positions of the trace holding the events of one kind.
DialIdx == {k \in DOMAIN trace : trace[k].ev = "dial"}
IsRetryObserved(e) == e.ev = "error" /\ e.a = "retry"
RetryIdx == {k \in DOMAIN trace : IsRetryObserved(trace[k])}
SleepIdx == {k \in DOMAIN trace : trace[k].ev = "sleep"}
TunnelErrorIdx == {k \in DOMAIN trace : trace[k].ev = "error" /\ trace[k].a = "tunnel"}
StatusIdx == {k \in DOMAIN trace : trace[k].ev = "status"}
HijackIdx == {k \in DOMAIN trace : trace[k].ev = "hijack"}
HijackedIdx == {k \in DOMAIN trace : trace[k].ev = "hijacked"}
CopyIdx == {k \in DOMAIN trace : trace[k].ev = "copy_start"}
ClosedIdx == {k \in DOMAIN trace : trace[k] = RecordRequest("CONNECT", "200", "tunnel")}
SentIdx == {k \in DOMAIN trace : trace[k].ev = "bytes_sent"}
ReceivedIdx == {k \in DOMAIN trace : trace[k].ev = "bytes_received"}

\* dialHost has returned to handleConnect.
DialHostReturned == pc \notin {"idle", "HandleRequest", "dialLoop", "sleep"}
\* The tunnel function has been entered.
TunnelEntered == c2sLoop # "notstarted" \/ s2cLoop # "notstarted"

\* C1: with N >= 0 configured retries and every dial attempt failing,
\* dialHost makes exactly N+1 dial attempts, emits exactly N retry-observed
\* events and returns the error of the last attempt (and no connection).
C1_AlwaysFailingDial ==
    (DialHostReturned /\ \A k \in DialIdx : trace[k].a = "fail") =>
        /\ dials = MaxDialRetries + 1
        /\ Cardinality(DialIdx) = MaxDialRetries + 1
        /\ Cardinality(RetryIdx) = MaxDialRetries
        /\ err = MaxDialRetries + 1
        /\ destConn = 0

C1_Witness ==
    /\ pc = "dialReturned" /\ MaxDialRetries >= 1
    /\ \A k \in DialIdx : trace[k].a = "fail"
    /\ Cardinality(RetryIdx) = MaxDialRetries

\* C2: when the first k-1 dial attempts fail and attempt k <= N+1 succeeds,
\* dialHost has made exactly k attempts, returns the connection of attempt k
\* with a nil error, and nothing of dialHost (dial, retry-observed event,
\* sleep) happens after the successful attempt.
C2_DialSucceedsOnAttemptK ==
    \A k \in DialIdx : trace[k].a = "ok" =>
        LET att == trace[k].n IN
        /\ att \in 1..(MaxDialRetries + 1)
        /\ \A j \in DialIdx : j < k => trace[j].a = "fail"
        /\ Cardinality(DialIdx) = att /\ dials = att
        /\ destConn = att /\ err = 0
        /\ sleeps = att - 1
        /\ Cardinality(RetryIdx) = att - 1
        /\ \A j \in DOMAIN trace :
              j > k => trace[j].ev \notin {"dial", "sleep"} /\ ~IsRetryObserved(trace[j])
        /\ DialHostReturned

C2_Witness ==
    /\ pc = "dialReturned" /\ MaxDialRetries >= 1
    /\ destConn = MaxDialRetries + 1 /\ err = 0
    /\ dials = MaxDialRetries + 1

\* C3: between two consecutive dial attempts there is exactly one
\* retry-observed event followed by exactly one sleep, in that order; after
\* the final (N+1-th) failed attempt there is neither.
C3_RetryThenSleepBetweenDials ==
    /\ \A j, k \in DialIdx :
          (j < k /\ \A m \in DialIdx : ~(j < m /\ m < k)) =>
              LET between == (j + 1)..(k - 1) IN
              /\ Cardinality(RetryIdx \cap between) = 1
              /\ Cardinality(SleepIdx \cap between) = 1
              /\ \A r \in RetryIdx \cap between : \A z \in SleepIdx \cap between : r < z
    /\ \A j \in DialIdx :
          (trace[j].n = MaxDialRetries + 1 /\ trace[j].a = "fail") =>
              \A m \in DOMAIN trace :
                  m > j => trace[m].ev # "sleep" /\ ~IsRetryObserved(trace[m])
    /\ Cardinality(SleepIdx) = sleeps

C3_Witness ==
    /\ Cardinality(DialIdx) >= 3
    /\ pc = "handlerReturned" /\ err = MaxDialRetries + 1
    /\ sleeps = MaxDialRetries

\* C4: when dialHost returned an error, the response is 502, exactly one
\* error event (tunnel, dial_failed) is emitted, preceded by exactly N
\* retry-observed events (two for retry count 2), the hijack handler is never
\* registered or called and no copy loop is started.
C4_DialFailureIs502 ==
    (pc \in {"handlerReturned", "done"} /\ err # 0) =>
        /\ respStatus = StatusBadGateway /\ respBody = ErrorBody
        /\ clientResponse \in {0, StatusBadGateway}
        /\ Cardinality(TunnelErrorIdx) = 1
        /\ \A k \in TunnelErrorIdx : trace[k] = RecordError("tunnel", "dial_failed")
        /\ Cardinality(RetryIdx) = MaxDialRetries
        /\ \A r \in RetryIdx : \A k \in TunnelErrorIdx : r < k
        /\ ~hijackHandler
        /\ HijackIdx = {} /\ HijackedIdx = {} /\ CopyIdx = {}
        /\ ~TunnelEntered /\ wg = 0

C4_Witness ==
    /\ pc = "done" /\ err # 0 /\ MaxDialRetries = 2
    /\ clientResponse = StatusBadGateway
    /\ Cardinality(RetryIdx) = 2

C6_TunnelLiveness ==
    (pc = "relaying" /\ (c2sLoop = "done" \/ s2cLoop = "done"))
        ~> (clientConnState = "closed" /\ destConnState = "closed")

\* C7: when tunnel has returned, it has closed the client connection and the
\* origin connection exactly once each, whichever loop ended first and
\* however; neither is closed before; a further close of the closed client
\* connection leaves it closed.
C7_TunnelTeardown ==
    /\ (TunnelEntered /\ pc \in {"tunnelReturned", "done"}) =>
          /\ clientCloses = 1 /\ destCloses = 1
          /\ clientConnState = "closed" /\ destConnState = "closed"
    /\ pc \in {"hijacked", "relaying", "recorded"} =>
          /\ clientCloses = 0 /\ destCloses = 0
          /\ clientConnState = "open" /\ destConnState = "open"

C7_Witness ==
    /\ pc = "done" /\ TunnelEntered
    /\ clientPeer = "eof" /\ originPeer = "reset"
    /\ c2sWritten = 1

\* C8: for a tunnel that relayed X bytes client->origin and Y bytes
\* origin->client, exactly one byte-count event per direction is emitted at
\* close: received carries X, sent carries Y; none is emitted before.
C8_TunnelByteAccounting ==
    /\ (TunnelEntered /\ pc \in {"recorded", "tunnelReturned", "done"}) =>
          /\ Cardinality(SentIdx) = 1 /\ Cardinality(ReceivedIdx) = 1
          /\ \A k \in ReceivedIdx : trace[k] = BytesReceived("tunnel", c2sWritten)
          /\ \A k \in SentIdx : trace[k] = BytesSent("tunnel", s2cWritten)
    /\ pc \notin {"recorded", "tunnelReturned", "done"} =>
          SentIdx = {} /\ ReceivedIdx = {}

C8_Witness ==
    /\ pc = "recorded"
    /\ c2sWritten = 2 /\ s2cWritten = 1
    /\ \E k \in ReceivedIdx : trace[k].n = 2

\* C9: the step that reads the two byte counters (to emit the completion and
\* byte-count events) is taken only when both copy loops have terminated.
C9_CountersReadAfterJoin ==
    [][(\E k \in DOMAIN trace' : /\ k \notin DOMAIN trace
                                 /\ trace'[k].ev \in {"bytes_sent", "bytes_received"})
          => (c2sLoop = "done" /\ s2cLoop = "done")]_vars

C9_Witness ==
    /\ pc = "recorded" /\ c2sLoop = "done" /\ s2cLoop = "done"
    /\ SentIdx # {} /\ c2sWritten + s2cWritten > 0

\* C10: sanitization removes every header whose name equals one of the
\* hop-by-hop names without regard to case, and leaves every other header's
\* name, value and relative order unchanged.
IsHopByHop(name) ==
    \E k \in DOMAIN hopByHopHeaders : lowerName(hopByHopHeaders[k]) = lowerName(name)

NotHopByHop(kv) == ~IsHopByHop(kv[1])

C10_SanitizeCaseInsensitive ==
    hpc \in {"requestSanitized", "responseSanitized"} =>
        header = SelectSeq(inHeader, NotHopByHop)

\* Positions of the trace holding a request-completion event.
RequestIdx == {k \in DOMAIN trace : trace[k].ev = "request"}

\* C19: every request produces exactly one request-completion event; a
\* CONNECT request whose dial was retried r times has produced r
\* retry-observed events and still one completion event in all (stated for
\* the requests whose response reached the client).
C19_OneCompletionEvent ==
    (pc = "done" /\ clientResponse # 0) =>
        /\ Cardinality(RequestIdx) = 1
        /\ Cardinality(RetryIdx) = sleeps

\* C20: the tunnel gauge counts the CONNECT request while it is dialing and
\* while its tunnel is relaying, and nothing once the request has ended.
C20_TunnelGauge ==
    /\ pc \in {"dialLoop", "sleep", "dialReturned"} => tunnelConnections = 1
    /\ pc = "relaying" => tunnelConnections = 1
    /\ pc = "done" => tunnelConnections = 0

\* ------------------------------------------------------------------ HTTP claims
\* The handler of the HTTP path has returned.
HttpReturned == reqMethod # MethodConnect /\ pc \in {"handlerReturned", "done"}
DispatchIdx == {k \in DOMAIN trace : trace[k].ev = "dispatch"}
ErrorIdx == {k \in DOMAIN trace : trace[k].ev = "error"}
NoHopByHop(h) == \A n \in DOMAIN h : ~IsHopByHop(h[n][1])

\* C11: every request that reached the origin had its hop-by-hop headers
\* removed, and the response handed to the client on the success path
\* contains no hop-by-hop header.
C11_SanitizeBeforeBoundary ==
    /\ \A k \in DOMAIN dispatched : NoHopByHop(dispatched[k])
    /\ (HttpReturned /\ upErr = 0) => NoHopByHop(ctxRespHeader)

\* The values of the X-Forwarded-For lines of a header, in order.
IsForwardedFor(kv) == lowerName(kv[1]) = lowerName(XForwardedFor)
RECURSIVE ForwardedValues(_)
ForwardedValues(h) ==
    IF h = <<>> THEN <<>>
    ELSE IF IsForwardedFor(Head(h)) THEN <<Head(h)[2]>> \o ForwardedValues(Tail(h))
         ELSE ForwardedValues(Tail(h))

\* The entries of several lines as one list: "v1, v2, ...".
RECURSIVE JoinValues(_)
JoinValues(vs) ==
    IF Len(vs) = 1 THEN vs[1] ELSE vs[1] \o ", " \o JoinValues(Tail(vs))

\* C12: the outbound request carries one X-Forwarded-For value: the client IP
\* when the inbound request had none, and "V, <client-ip>" when it had the
\* value V, all entries of V (of all its lines) kept in order (stated for
\* inbound lines with a non-empty value).
C12_ForwardedForChaining ==
    (reqMethod # MethodConnect /\ pc # "HandleRequest"
       /\ \A n \in DOMAIN ForwardedValues(inHeader) : ForwardedValues(inHeader)[n] # "") =>
        LET prior == ForwardedValues(inHeader) IN
        ForwardedValues(header) =
            IF prior = <<>> THEN <<ClientIP>>
            ELSE <<JoinValues(prior) \o ", " \o ClientIP>>

\* The decimal string of a status, and the length of a body, as the observer
\* of the metrics expects them.
StatusString(st) == CASE st = 200 -> "200" [] st = 302 -> "302" [] st = 404 -> "404"
                      [] OTHER -> "?"
BodyLength(b) == CASE b = "" -> 0 [] b = "o" -> 1 [] b = "ok" -> 2 [] b = "data" -> 4
                   [] OTHER -> -1

\* C14: when the dispatch returned an error the response is 502 with the
\* diagnostic body, exactly one error event (http, upstream_request_failed)
\* and exactly one completion event (status "502") are emitted, and nothing
\* of the origin's response is copied to the client.
C14_UpstreamFailureIs502 ==
    (HttpReturned /\ upErr # 0) =>
        /\ respStatus = StatusBadGateway /\ respBody = ErrorBody
        /\ clientResponse \in {0, StatusBadGateway}
        /\ Cardinality(ErrorIdx) = 1
        /\ \A k \in ErrorIdx : trace[k] = RecordError("http", "upstream_request_failed")
        /\ Cardinality(RequestIdx) = 1
        /\ \A k \in RequestIdx : trace[k] = RecordRequest(reqMethod, "502", "http")
        /\ ctxRespHeader = <<>>
        /\ SentIdx = {} /\ ReceivedIdx = {}

C14_Witness ==
    /\ HttpReturned /\ pc = "done" /\ upErr = 2
    /\ resp = PartialResponse
    /\ clientResponse = StatusBadGateway

\* C15: a non-CONNECT request causes exactly one dispatch through the pool
\* (one Get, one DoTimeout, one Put) whether it succeeds or fails, and no
\* dial, retry-observed event or sleep of the retry policy.
C15_SingleUpstreamAttempt ==
    reqMethod # MethodConnect =>
        /\ gets <= 1 /\ puts <= 1 /\ Cardinality(DispatchIdx) <= 1
        /\ Len(dispatched) <= 1
        /\ pc \in {"dispatchReturned", "handlerReturned", "done"} =>
              gets = 1 /\ puts = 1 /\ Cardinality(DispatchIdx) = 1 /\ client = 0
        /\ RetryIdx = {} /\ SleepIdx = {} /\ DialIdx = {}
        /\ dials = 0 /\ sleeps = 0

C15_Witness ==
    /\ HttpReturned /\ upErr # 0 /\ MaxDialRetries > 0
    /\ gets = 1 /\ puts = 1

\* C16: when the dispatch succeeded with origin status S the client response
\* has status S and the origin's body, exactly one completion event
\* {method, decimal string of S, "http"}, one response-body byte count and
\* one request-body byte count are emitted, and no error event.
C16_HttpSuccess ==
    (HttpReturned /\ upErr = 0) =>
        /\ respStatus = resp.status /\ respBody = resp.body
        /\ resp \in OriginResponses
        /\ clientResponse \in {0, resp.status}
        /\ Cardinality(RequestIdx) = 1
        /\ \A k \in RequestIdx :
              trace[k] = RecordRequest(reqMethod, StatusString(resp.status), "http")
        /\ Cardinality(SentIdx) = 1 /\ Cardinality(ReceivedIdx) = 1
        /\ \A k \in SentIdx : trace[k] = BytesSent("http", BodyLength(resp.body))
        /\ \A k \in ReceivedIdx : trace[k] = BytesReceived("http", BodyLength(reqBody))
        /\ ErrorIdx = {}

C16_Witness ==
    /\ HttpReturned /\ upErr = 0 /\ pc = "done"
    /\ resp.status = 302 /\ resp.body = "ok" /\ reqMethod = "POST"
    /\ clientResponse = 302

\* ------------------------------------------------------------------ the pool
\* Pool (pkg/pool) under several concurrent requests.  Each request runs
\* Pool.DoTimeout: client := p.Get(); defer p.Put(client);
\* client.DoTimeout(req, resp, timeout).  Clients are numbered in the order
\* newClient made them; 0 is "no client" (nil).

\* The number of concurrent requests.
NumReqs == 3
Reqs == 1..NumReqs

\* How client.DoTimeout ends.
DoOutcomes == {"ok", "error", "timeout"}

\* Put that would close the instance it returns.
poolPutCloses_all(c) == {c}

\* Pool.Put: p.pool.Put(client) and nothing else: no instance is closed.
poolPutCloses(c) == {}

PoolInit ==
    /\ poolMade \in 0..1 /\ poolIdle = 1..poolMade
    /\ ppc = [r \in Reqs |-> "start"]
    /\ holder = [r \in Reqs |-> 0]
    /\ closedClients = {}
    /\ ConnIdle /\ TunIdle /\ HdrIdle /\ HttpIdle /\ TargetIdle /\ MoreIdle

\* Pool.Get: sync.Pool.Get hands out one of the idle instances or, when it
\* finds none, the result of New (newClient).
PoolGet(r) ==
    /\ ppc[r] = "start"
    /\ \E c \in poolGetChoices(poolIdle, poolMade) :
          /\ holder' = [holder EXCEPT ![r] = c]
          /\ poolIdle' = poolAfterGet(poolIdle, c)
          /\ poolMade' = IF c > poolMade THEN c ELSE poolMade
    /\ ppc' = [ppc EXCEPT ![r] = "got"]
    /\ UNCHANGED <<closedClients, connVars, tunVars, hdrVars, httpVars, targetVars, moreVars>>

\* client.DoTimeout(req, resp, timeout) returns.
ClientDo(r, out) ==
    /\ ppc[r] = "got"
    /\ ppc' = [ppc EXCEPT ![r] = out]
    /\ UNCHANGED <<poolIdle, poolMade, holder, closedClients>>
    /\ UNCHANGED <<connVars, tunVars, hdrVars, httpVars, targetVars, moreVars>>

\* The deferred p.Put(client).
PoolPut(r) ==
    /\ ppc[r] \in DoOutcomes
    /\ poolIdle' = poolAfterPut(poolIdle, holder[r])
    /\ closedClients' = closedClients \cup poolPutCloses(holder[r])
    /\ holder' = [holder EXCEPT ![r] = 0]
    /\ ppc' = [ppc EXCEPT ![r] = "done"]
    /\ UNCHANGED <<poolMade, connVars, tunVars, hdrVars, httpVars, targetVars, moreVars>>

\* sync.Pool drops idle instances at a garbage collection.
PoolGC ==
    /\ \E c \in poolIdle : poolIdle' = poolIdle \ {c}
    /\ UNCHANGED <<poolMade, ppc, holder, closedClients>>
    /\ UNCHANGED <<connVars, tunVars, hdrVars, httpVars, targetVars, moreVars>>

PoolNext ==
    \/ \E r \in Reqs : PoolGet(r)
    \/ \E r \in Reqs : \E out \in DoOutcomes : ClientDo(r, out)
    \/ \E r \in Reqs : PoolPut(r)
    \/ PoolGC

PoolSpec == PoolInit /\ [][PoolNext]_vars

\* ------------------------------------------------------------------ pool claims
Holding(r) == ppc[r] \in {"got"} \cup DoOutcomes

\* C17: Get never blocks and returns a non-nil client, either an instance
\* released before or a newly constructed one, for any number of concurrent
\* callers and any order of Get and Put; Put returns the instance for reuse
\* and never closes it.
C17_PoolAcquireRelease ==
    /\ [](\A r \in Reqs :
            /\ ppc[r] = "start" => ENABLED PoolGet(r)
            /\ Holding(r) => holder[r] \in 1..poolMade /\ holder[r] \notin closedClients)
    /\ [][\A r \in Reqs :
            /\ (ppc[r] = "start" /\ ppc'[r] = "got") =>
                  /\ holder'[r] # 0
                  /\ holder'[r] \in poolIdle \/ (holder'[r] = poolMade + 1 /\ poolMade' = poolMade + 1)
                  /\ poolIdle = {} => holder'[r] = poolMade + 1
            /\ (Holding(r) /\ ppc'[r] = "done") =>
                  /\ holder[r] \in poolIdle'
                  /\ closedClients' = closedClients]_vars

\* Two requests hold clients at once, one of them an instance that another
\* request released before, and a finished request's instance is idle again.
C17_Witness ==
    \E r1, r2, r3 \in Reqs :
        /\ ppc[r1] = "done" /\ Holding(r2) /\ Holding(r3) /\ r2 # r3
        /\ poolMade = 2

\* C18: under any interleaving no client instance is held by two in-flight
\* requests at the same time, and a held instance is not idle in the pool
\* (no other Get can return it) until it was Put back, also when DoTimeout
\* ended by timeout.
C18_PoolExclusivity ==
    /\ \A r1, r2 \in Reqs :
          (r1 # r2 /\ Holding(r1) /\ Holding(r2)) => holder[r1] # holder[r2]
    /\ \A r \in Reqs : Holding(r) => holder[r] # 0 /\ holder[r] \notin poolIdle

C18_Witness ==
    \E r1, r2 \in Reqs :
        /\ ppc[r1] = "timeout" /\ ppc[r2] = "got"
        /\ holder[r1] # 0 /\ holder[r2] # 0
        /\ \E r3 \in Reqs : ppc[r3] = "done"
        /\ poolMade = 2

\* ------------------------------------------------------------------ the CONNECT target
\* handleConnect: host := string(ctx.Host());
\*   if _, _, err := net.SplitHostPort(host); err != nil {
\*       host = net.JoinHostPort(host, "443") }
\* A host is a sequence of characters.

\* The longest host of the model.
MaxHostLen == 5
HostChars == {"a", "1", ":", "[", "]"}
Hosts == SeqsUpTo(HostChars, MaxHostLen)
DefaultPort == <<"4", "4", "3">>

\* strings.LastIndexByte / strings.IndexByte, 1-based; 0 when absent.
lastIndex(str, ch) ==
    LET at == {n \in DOMAIN str : str[n] = ch}
    IN IF at = {} THEN 0 ELSE CHOOSE n \in at : \A m \in at : m <= n
indexByte(str, ch) ==
    LET at == {n \in DOMAIN str : str[n] = ch}
    IN IF at = {} THEN 0 ELSE CHOOSE n \in at : \A m \in at : n <= m
\* hostport[from:] of Go, from 0-based.
sliceFrom(str, from) == SubSeq(str, from + 1, Len(str))

\* net.SplitHostPort(hostport) returns a non-nil error.
splitHostPortFails(hostport) ==
    LET colon == lastIndex(hostport, ":")
        end == indexByte(hostport, "]")
    IN IF colon = 0 THEN TRUE                                    \* missing port
       ELSE IF hostport[1] = "["
       THEN IF end = 0 THEN TRUE                             \* missing ']'
            ELSE IF end = Len(hostport) THEN TRUE            \* missing port
            ELSE IF end + 1 # colon THEN TRUE                    \* too many colons / missing port
            ELSE \/ indexByte(sliceFrom(hostport, 1), "[") # 0
                 \/ indexByte(sliceFrom(hostport, end), "]") # 0
       ELSE \/ indexByte(SubSeq(hostport, 1, colon - 1), ":") # 0   \* too many colons
            \/ indexByte(hostport, "[") # 0
            \/ indexByte(hostport, "]") # 0

\* net.JoinHostPort(host, port): the host goes into brackets when it holds
\* a colon.
JoinHostPort(h, port) ==
    IF indexByte(h, ":") # 0 THEN <<"[">> \o h \o <<"]", ":">> \o port
    ELSE h \o <<":">> \o port

TargetInit ==
    /\ host \in Hosts /\ target = <<>> /\ tpc = "start"
    /\ ConnIdle /\ TunIdle /\ HdrIdle /\ HttpIdle /\ PoolIdle /\ MoreIdle

\* handleConnect: the host handed to dialHost.
NormalizeTarget ==
    /\ tpc = "start"
    /\ target' = IF splitHostPortFails(host) THEN JoinHostPort(host, DefaultPort)
                 ELSE host
    /\ tpc' = "normalized"
    /\ UNCHANGED <<host, connVars, tunVars, hdrVars, httpVars, poolVars, moreVars>>

TargetNext == NormalizeTarget

TargetSpec == TargetInit /\ [][TargetNext]_vars

\* ------------------------------------------------------------------ target claim
\* The forms of a CONNECT target: name, name:port, [v6], [v6]:port.
IsName(str) == str # <<>> /\ \A n \in DOMAIN str : str[n] \in {"a", "1"}
IsPort(str) == str # <<>> /\ \A n \in DOMAIN str : str[n] = "1"
IsV6(str) == /\ \A n \in DOMAIN str : str[n] \in {"a", "1", ":"}
             /\ \E n \in DOMAIN str : str[n] = ":"
IsBracketed(str) ==
    Len(str) >= 3 /\ str[1] = "[" /\ str[Len(str)] = "]"
        /\ IsV6(SubSeq(str, 2, Len(str) - 1))
HostWithoutPort(str) == IsName(str) \/ IsBracketed(str)
HostWithPort(str) ==
    \E k \in DOMAIN str :
        /\ str[k] = ":"
        /\ HostWithoutPort(SubSeq(str, 1, k - 1))
        /\ IsPort(SubSeq(str, k + 1, Len(str)))

\* C13: for a CONNECT target without explicit port (a name, or a bracketed
\* IPv6 literal) the dialed target is that host followed by ":443"; for a
\* target with an explicit port the dialed target is the input.
C13_TargetNormalization ==
    tpc = "normalized" =>
        /\ HostWithoutPort(host) => target = host \o <<":">> \o DefaultPort
        /\ HostWithPort(host) => target = host

\* ------------------------------------------------------------------ tunnel and retry claims, continued
\* C26: neither connection is closed while a copy loop is still running; the
\* loop that finishes first leaves the other loop and both connections as
\* they are, and a close happens only when both loops have returned.
C26_NoPreemptiveCancel ==
    /\ []((c2sLoop = "running" \/ s2cLoop = "running") =>
            /\ clientCloses = 0 /\ destCloses = 0
            /\ clientConnState = "open" /\ destConnState = "open")
    /\ [][/\ (clientCloses' # clientCloses \/ destCloses' # destCloses
                \/ clientConnState' # clientConnState
                \/ (destConnState = "open" /\ destConnState' # "open"))
             => (c2sLoop = "done" /\ s2cLoop = "done")
          /\ (c2sLoop = "running" /\ c2sLoop' = "done") => s2cLoop' = s2cLoop
          /\ (s2cLoop = "running" /\ s2cLoop' = "done") => c2sLoop' = c2sLoop]_vars

C26_Witness ==
    /\ pc = "relaying" /\ c2sLoop = "done" /\ s2cLoop = "running"
    /\ clientPeer = "reset" /\ s2cWritten = 1
    /\ clientConnState = "open" /\ destConnState = "open"

\* The events recorded since the tunnel was entered.
AfterHijacked == {k \in DOMAIN trace : \E h \in HijackedIdx : h < k}
\* One of the copy loops ended by an I/O error.
TunnelIOError == TunnelEntered /\ (clientPeer = "reset" \/ originPeer = "reset")

\* C27: once a tunnel is established, an I/O error in a copy loop causes no
\* further dial, no sleep, no 502 and no error event; the client keeps the
\* 200 it received, and the tunnel's completion event, emitted once, is
\* {CONNECT, "200", tunnel}.
C27_MidTunnelFailureSilent ==
    TunnelEntered =>
        /\ \A k \in AfterHijacked : trace[k].ev \notin {"dial", "sleep", "error", "status"}
        /\ \A k \in AfterHijacked \cap RequestIdx :
              trace[k] = RecordRequest("CONNECT", "200", "tunnel")
        /\ Cardinality(AfterHijacked \cap RequestIdx) =
              IF pc \in {"recorded", "tunnelReturned", "done"} THEN 1 ELSE 0
        /\ clientResponse = StatusOK /\ respStatus = StatusOK
        /\ Cardinality(DialIdx) = dials

C27_Witness ==
    /\ pc = "done" /\ TunnelIOError /\ originPeer = "reset" /\ clientPeer = "open"
    /\ MaxDialRetries >= 1 /\ ClosedIdx # {}

\* The label an observer expects on the n-th retry-observed event.
RetryLabel(n) == CASE n = 1 -> "#1" [] n = 2 -> "#2" [] n = 3 -> "#3" [] n = 4 -> "#4"
                   [] OTHER -> "#?"

\* C28: within one dialHost call the n-th retry-observed event carries the
\* reason "#n", n being also the index of the failed attempt that caused it:
\* the reasons are #1, #2, ... with none repeated or skipped.
C28_RetryLabels ==
    \A k \in RetryIdx :
        LET n == Cardinality({j \in RetryIdx : j <= k})
            d == Cardinality({j \in DialIdx : j < k})
        IN /\ trace[k].b = RetryLabel(n)
           /\ d = n
           /\ \E j \in DialIdx : /\ j < k /\ trace[j].n = n /\ trace[j].a = "fail"
                                 /\ \A j2 \in DialIdx : j2 < k => j2 <= j

C28_Witness ==
    /\ Cardinality(RetryIdx) = MaxRetries /\ pc = "sleep"
    /\ \E k \in RetryIdx : trace[k].b = "#2"

\* ------------------------------------------------------------------ Config.Validate
\* The numeric fields of the configuration range over -MaxCfgInt..MaxCfgInt
\* (durations in seconds).
MaxCfgInt == 1
CfgInts == (0 - MaxCfgInt)..MaxCfgInt
Configs ==
    [Address : {"", ":8080"}, MaxConnsPerIP : CfgInts, ReadTimeout : CfgInts,
     WriteTimeout : CfgInts, DialTimeout : CfgInts, MetricsEnabled : BOOLEAN,
     MetricsAddress : {"", ":9090"}]

\* The dial timeout checked with  < 0.
dialTimeoutInvalid_strict(d) == d < 0

\* Validate: if c.Proxy.DialTimeout <= 0
dialTimeoutInvalid(d) == d <= 0

\* Config.Validate: the checks in their order; the result is the message of
\* the first check that fails, "" for nil.
Validate(c) ==
    IF c.Address = "" THEN "server.address cannot be empty"
    ELSE IF c.MaxConnsPerIP < 0 THEN "server.max_conns_per_ip must be >= 0"
    ELSE IF c.ReadTimeout < 0 THEN "server.read_timeout must be >= 0"
    ELSE IF c.WriteTimeout < 0 THEN "server.write_timeout must be >= 0"
    ELSE IF dialTimeoutInvalid(c.DialTimeout) THEN "proxy.dial_timeout must be > 0"
    ELSE IF c.MetricsEnabled /\ c.MetricsAddress = ""
         THEN "metrics.address cannot be empty when metrics are enabled"
    ELSE ""

ValidateInit ==
    /\ cfg \in Configs /\ validateErr = "" /\ vpc = "start"
    /\ ShutIdle /\ ConcIdle /\ BufIdle
    /\ ConnIdle /\ TunIdle /\ HdrIdle /\ HttpIdle /\ PoolIdle /\ TargetIdle

\* err := cfg.Validate(): the receiver is read only.
ValidateConfig ==
    /\ vpc = "start"
    /\ validateErr' = Validate(cfg)
    /\ vpc' = "validated"
    /\ UNCHANGED <<cfg, shutVars, concVars, bufVars, connVars, tunVars, hdrVars, httpVars,
                   poolVars, targetVars>>

ValidateNext == ValidateConfig

ValidateSpec == ValidateInit /\ [][ValidateNext]_vars

\* ------------------------------------------------------------------ configuration claim
\* The configurations the validation has to refuse.
ConfigInvalid(c) ==
    \/ c.Address = ""
    \/ c.MaxConnsPerIP < 0
    \/ c.ReadTimeout < 0
    \/ c.WriteTimeout < 0
    \/ ~(c.DialTimeout > 0)
    \/ (c.MetricsEnabled /\ c.MetricsAddress = "")

\* C25: Validate returns an error exactly for the configurations with an
\* empty server address, a negative MaxConnsPerIP, a negative read or write
\* timeout, a dial timeout that is not positive, or metrics enabled with an
\* empty metrics address, nil for every other one, and leaves the
\* configuration unchanged.
C25_ValidateConfig ==
    /\ [](vpc = "validated" => ((validateErr # "") <=> ConfigInvalid(cfg)))
    /\ [][cfg' = cfg]_vars

C25_Witness ==
    /\ vpc = "validated" /\ validateErr = "proxy.dial_timeout must be > 0"
    /\ cfg.DialTimeout = 0 /\ cfg.Address # "" /\ ~cfg.MetricsEnabled

\* ------------------------------------------------------------------ request classification claims
\* C22: a malformed non-CONNECT request (here: one without a target host)
\* is answered with a 4xx before any upstream work: no pooled client is
\* acquired, nothing is dispatched, nothing is dialed.
C22_MalformedRejected ==
    (~isConnect(reqMethod) /\ host = <<>>) =>
        /\ gets = 0 /\ client = 0
        /\ dispatched = <<>> /\ DispatchIdx = {}
        /\ dials = 0
        /\ HttpReturned => respStatus \in 400..499

HttpPathPcs == {"doTimeout", "got", "did", "dispatchReturned"}
ConnectPathPcs == {"dialLoop", "sleep", "dialReturned", "hijacked", "relaying",
                   "recorded", "tunnelReturned"}

\* C24: a request with method CONNECT takes the tunnel path and never
\* acquires a pooled client or dispatches; a request with any other method
\* takes the HTTP forwarding path and never dials, sleeps, emits a
\* retry-observed event or hijacks the connection.
C24_MethodClassification ==
    /\ reqMethod = "CONNECT" =>
          /\ pc \notin HttpPathPcs
          /\ gets = 0 /\ puts = 0 /\ client = 0
          /\ dispatched = <<>> /\ DispatchIdx = {}
          /\ pc \notin {"idle", "HandleRequest"} => i >= 1 /\ header = <<>>
    /\ reqMethod # "CONNECT" =>
          /\ pc \notin ConnectPathPcs
          /\ dials = 0 /\ DialIdx = {} /\ sleeps = 0 /\ RetryIdx = {}
          /\ ~hijackHandler /\ HijackIdx = {} /\ ~TunnelEntered
          /\ tunnelConnections = 0
          /\ pc \notin {"idle", "HandleRequest", "doTimeout"} => gets = 1
          /\ i = 0

C24_Witness ==
    /\ reqMethod = "POST" /\ pc = "done" /\ gets = 1 /\ puts = 1
    /\ Len(dispatched) = 1 /\ clientResponse = 404

\* C29: the HTTP forwarding path leaves the inbound request as it was
\* received: its method, host, header lines and body are the same after
\* every step, on the success and on the failure path (sanitization and the
\* X-Forwarded-For update are seen in the outbound request only).
C29_InboundUnchanged ==
    [][reqMethod # "CONNECT" =>
          /\ inHeader' = inHeader /\ reqMethod' = reqMethod
          /\ reqBody' = reqBody /\ host' = host]_vars

C29_Witness ==
    /\ HttpReturned /\ upErr # 0
    /\ \E n \in DOMAIN inHeader : inHeader[n][1] = <<"T", "E">>
    /\ NoHopByHop(header) /\ ForwardedValues(inHeader) = <<>>
    /\ ForwardedValues(header) = <<ClientIP>>

\* ------------------------------------------------------------------ observability claim
\* The completion events of a request: those of type "http" or "tunnel".
CompletionIdx == {k \in RequestIdx : trace[k].c \in {"http", "tunnel"}}

\* C23: no request is dropped from observability; stated for the outcome
\* "tunnel ended by a mid-flight I/O error on one direction": once one peer
\* of a relaying tunnel has reset its connection, the request eventually
\* emits its completion event.
C23_CompletionEventually ==
    (pc = "relaying" /\ TunnelIOError) ~> (CompletionIdx # {})

\* ------------------------------------------------------------------ shutdown
\* main and Server.ShutdownWithContext around fasthttp's Server: the server
\* counts in s.open the connections that are inside serveConn; a hijacked
\* connection leaves serveConn (and the count) when its handler returned,
\* and its tunnel runs in a goroutine of its own.

\* The most connections open at once.
MaxConns == 4

OtherVars == <<connVars, tunVars, hdrVars, httpVars, poolVars, targetVars, cfgVars,
               concVars, bufVars>>

ShutdownInit ==
    /\ mainPc = "serving" /\ listening = TRUE /\ openConns = 0 /\ hijackedConns = 0
    /\ ctxDone = FALSE /\ srvShutdown = "notstarted" /\ exitCode = -1 /\ cutConns = 0
    /\ metricsServer \in {"none", "running"} /\ done = <<>> /\ shutdownErr = ""
    /\ ConnIdle /\ TunIdle /\ HdrIdle /\ HttpIdle /\ PoolIdle /\ TargetIdle /\ CfgIdle
    /\ ConcIdle /\ BufIdle

\* The listener accepts a connection; a request is being served.
AcceptConn ==
    /\ mainPc # "exited" /\ listening
    /\ openConns + hijackedConns < MaxConns
    /\ openConns' = openConns + 1
    /\ UNCHANGED <<mainPc, listening, hijackedConns, ctxDone, srvShutdown, exitCode,
                   cutConns, OtherVars, sdVars>>

\* A request ends without hijack (HTTP request, failed CONNECT): serveConn
\* returns and the connection is closed.
RequestEnds ==
    /\ mainPc # "exited" /\ openConns > 0
    /\ openConns' = openConns - 1
    /\ UNCHANGED <<mainPc, listening, hijackedConns, ctxDone, srvShutdown, exitCode,
                   cutConns, OtherVars, sdVars>>

\* handleConnect returned after ctx.Hijack: serveConn returns, the tunnel
\* goes on in the hijack goroutine.
ConnHijacked ==
    /\ mainPc # "exited" /\ openConns > 0
    /\ openConns' = openConns - 1
    /\ hijackedConns' = hijackedConns + 1
    /\ UNCHANGED <<mainPc, listening, ctxDone, srvShutdown, exitCode, cutConns,
                   OtherVars, sdVars>>

\* A tunnel returns and its connections are closed.
TunnelEnds ==
    /\ mainPc # "exited" /\ hijackedConns > 0
    /\ hijackedConns' = hijackedConns - 1
    /\ UNCHANGED <<mainPc, listening, openConns, ctxDone, srvShutdown, exitCode,
                   cutConns, OtherVars, sdVars>>

\* main receives SIGINT/SIGTERM and makes the context with the 30 s timeout,
\* which runs from here on; ShutdownWithContext is called.
SignalReceived ==
    /\ mainPc = "serving"
    /\ mainPc' = "signalled"
    /\ UNCHANGED <<listening, openConns, hijackedConns, ctxDone, srvShutdown,
                   exitCode, cutConns, OtherVars, sdVars>>

\* ShutdownWithContext:  if s.metricsServer != nil { if err :=
\* s.metricsServer.Shutdown(); err != nil { Warnw } }.  The metrics server's
\* Shutdown is http.Server.Close(), which returns at once, with an error
\* (failed) or without.
MetricsShutdown(failed) ==
    /\ mainPc = "signalled"
    /\ metricsServer' = IF metricsServer = "none" THEN "none"
                        ELSE IF failed THEN "closeFailed" ELSE "closed"
    /\ mainPc' = "metricsDone"
    /\ UNCHANGED <<listening, openConns, hijackedConns, ctxDone, srvShutdown,
                   exitCode, cutConns, done, shutdownErr, OtherVars>>

\* ShutdownWithContext:  done := make(chan error, 1);  go func() { done <-
\* s.server.Shutdown() }();  the caller goes on to the select.
StartShutdown ==
    /\ mainPc = "metricsDone"
    /\ done' = <<>>
    /\ srvShutdown' = "started"
    /\ mainPc' = "shutdown"
    /\ UNCHANGED <<listening, openConns, hijackedConns, ctxDone, exitCode, cutConns,
                   metricsServer, shutdownErr, OtherVars>>

\* s.server.Shutdown(): the listeners are closed.
ServerShutdownCloseListeners ==
    /\ mainPc # "exited" /\ srvShutdown = "started"
    /\ listening' = FALSE
    /\ srvShutdown' = "waiting"
    /\ UNCHANGED <<mainPc, openConns, hijackedConns, ctxDone, exitCode, cutConns,
                   OtherVars, sdVars>>

\* The connections s.server.Shutdown() waits for: those counted in s.open;
\* the hijacked ones are not.
shutdownWaitsFor(open, hijacked) == open

\* s.server.Shutdown() returns nil when no connection is counted as open.
ServerShutdownReturns ==
    /\ mainPc # "exited" /\ srvShutdown = "waiting"
    /\ shutdownWaitsFor(openConns, hijackedConns) = 0
    /\ srvShutdown' = "returned"
    /\ UNCHANGED <<mainPc, listening, openConns, hijackedConns, ctxDone, exitCode,
                   cutConns, OtherVars, sdVars>>

\* A channel with one slot less than it was made with.
chanCanSend_oneLess(buf, cap) == Len(buf) < cap - 1

\* A send on a channel proceeds without a receiver when the buffer has room.
chanCanSend(buf, cap) == Len(buf) < cap

\* The goroutine of ShutdownWithContext:  done <- (the nil that
\* s.server.Shutdown() returned); the goroutine ends.
ShutdownResultSent ==
    /\ mainPc # "exited" /\ srvShutdown = "returned"
    /\ chanCanSend(done, DoneCap)
    /\ done' = Append(done, "nil")
    /\ srvShutdown' = "sent"
    /\ UNCHANGED <<mainPc, listening, openConns, hijackedConns, ctxDone, exitCode,
                   cutConns, metricsServer, shutdownErr, OtherVars>>

\* The timeout of the shutdown context elapses.
DeadlineElapses ==
    /\ mainPc \in {"signalled", "metricsDone", "shutdown"} /\ ~ctxDone
    /\ ctxDone' = TRUE
    /\ UNCHANGED <<mainPc, listening, openConns, hijackedConns, srvShutdown,
                   exitCode, cutConns, OtherVars, sdVars>>

\* select case err := <-done: ShutdownWithContext returns the result of
\* s.server.Shutdown().
ShutdownReturnsDone ==
    /\ mainPc = "shutdown" /\ done # <<>>
    /\ shutdownErr' = Head(done)
    /\ done' = Tail(done)
    /\ mainPc' = "returned"
    /\ UNCHANGED <<listening, openConns, hijackedConns, ctxDone, srvShutdown,
                   exitCode, cutConns, metricsServer, OtherVars>>

\* select case <-ctx.Done(): ShutdownWithContext returns ctx.Err().
ShutdownTimesOut ==
    /\ mainPc = "shutdown" /\ ctxDone
    /\ shutdownErr' = "context deadline exceeded"
    /\ mainPc' = "returned"
    /\ UNCHANGED <<listening, openConns, hijackedConns, ctxDone, srvShutdown,
                   exitCode, cutConns, metricsServer, done, OtherVars>>

\* main after ShutdownWithContext: on an error it logs it and calls
\* os.Exit(1); otherwise it logs "server stopped gracefully" and returns.
\* The process ends and with it every connection still open.
MainExits ==
    /\ mainPc = "returned"
    /\ mainPc' = "exited"
    /\ exitCode' = IF shutdownErr = "nil" THEN 0 ELSE 1
    /\ cutConns' = openConns + hijackedConns
    /\ UNCHANGED <<listening, openConns, hijackedConns, ctxDone, srvShutdown,
                   OtherVars, sdVars>>

ShutdownNext ==
    \/ AcceptConn
    \/ RequestEnds
    \/ ConnHijacked
    \/ TunnelEnds
    \/ SignalReceived
    \/ \E failed \in BOOLEAN : MetricsShutdown(failed)
    \/ StartShutdown
    \/ ServerShutdownCloseListeners
    \/ ServerShutdownReturns
    \/ ShutdownResultSent
    \/ DeadlineElapses
    \/ ShutdownReturnsDone
    \/ ShutdownTimesOut
    \/ MainExits

ShutdownSpec == ShutdownInit /\ [][ShutdownNext]_vars

\* ------------------------------------------------------------------ shutdown claim
\* C21: shutdown stops the acceptance of new work, waits for the in-flight
\* HTTP requests and the active tunnels until they finished or the deadline
\* elapsed, and closes by force what remains only when the deadline elapsed.
C21_GracefulShutdown ==
    /\ srvShutdown \in {"waiting", "returned", "sent"} => ~listening
    /\ (mainPc = "exited" /\ cutConns > 0) => (ctxDone /\ exitCode = 1)
    /\ (mainPc = "exited" /\ ~ctxDone) => (openConns = 0 /\ hijackedConns = 0)

\* ------------------------------------------------------------------ concurrent requests
\* The server runs HandleRequest of every connection in a goroutine of its
\* own.  Each of the requests Reqs is a CONNECT request (dialHost with its
\* retry loop) or an HTTP request (one dispatch); the tunnel and the
\* response are not followed here.

\* A sleep that stops every other request (one thread for all requests).
blockedBySleep_all(sleeper, other) == sleeper # other

\* dialHost: time.Sleep(h.config.DialRetryDelay) suspends the goroutine that
\* called it, no other one.
blockedBySleep(sleeper, other) == FALSE

\* Request r is not held up by a request that sleeps.
CanRun(r) == \A q \in Reqs : rpc[q] = "sleep" => ~blockedBySleep(q, r)

ConcInit ==
    /\ rkind \in [Reqs -> {"CONNECT", "GET"}]
    /\ rpc = [r \in Reqs |-> "HandleRequest"]
    /\ rattempt = [r \in Reqs |-> 0]
    /\ MaxDialRetries = MaxRetries /\ pc = "idle"
    /\ i = 0 /\ destConn = 0 /\ err = 0 /\ dials = 0 /\ sleeps = 0
    /\ respStatus = StatusOK /\ respBody = "" /\ hijackHandler = FALSE
    /\ clientResponse = 0
    /\ activeConnections = 0 /\ tunnelConnections = 0
    /\ trace = <<>>
    /\ TunIdle /\ HdrIdle /\ HttpIdle /\ PoolIdle /\ TargetIdle /\ CfgIdle /\ ShutIdle
    /\ BufIdle

ConcFrame ==
    UNCHANGED <<rkind, MaxDialRetries, pc, i, destConn, err, dials, sleeps, respStatus,
                respBody, hijackHandler, clientResponse, tunnelConnections, trace,
                tunVars, hdrVars, httpVars, poolVars, targetVars, cfgVars, shutVars,
                bufVars>>

\* HandleRequest of request r: IncrementConnections and the choice of the
\* path by the method.
ReqStart(r) ==
    /\ rpc[r] = "HandleRequest" /\ CanRun(r)
    /\ activeConnections' = IncrementConnections(activeConnections)
    /\ rpc' = [rpc EXCEPT ![r] = IF isConnect(rkind[r]) THEN "dialLoop" ELSE "doTimeout"]
    /\ rattempt' = [rattempt EXCEPT ![r] = IF isConnect(rkind[r]) THEN 1 ELSE 0]
    /\ ConcFrame

\* One dial attempt of request r: on success, or on failure of the last
\* attempt, dialHost returns and the handler ends; on another failure the
\* retry is reported and the request goes to sleep.
ReqDial(r, ok) ==
    /\ rpc[r] = "dialLoop" /\ CanRun(r)
    /\ IF ~ok /\ dialRetryCond(rattempt[r], MaxDialRetries)
       THEN /\ rpc' = [rpc EXCEPT ![r] = "sleep"]
            /\ UNCHANGED activeConnections
       ELSE /\ rpc' = [rpc EXCEPT ![r] = "handlerReturned"]
            /\ activeConnections' = DecrementConnections(activeConnections)
    /\ UNCHANGED rattempt
    /\ ConcFrame

\* time.Sleep of request r returns; i++.
ReqWake(r) ==
    /\ rpc[r] = "sleep"
    /\ rattempt' = [rattempt EXCEPT ![r] = rattempt[r] + 1]
    /\ rpc' = [rpc EXCEPT ![r] = "dialLoop"]
    /\ UNCHANGED activeConnections
    /\ ConcFrame

\* Pool.DoTimeout of request r returns and handleHTTP ends.
ReqDispatch(r) ==
    /\ rpc[r] = "doTimeout" /\ CanRun(r)
    /\ rpc' = [rpc EXCEPT ![r] = "handlerReturned"]
    /\ activeConnections' = DecrementConnections(activeConnections)
    /\ UNCHANGED rattempt
    /\ ConcFrame

\* Some step of request r.
ReqStep(r) ==
    \/ ReqStart(r)
    \/ \E ok \in BOOLEAN : ReqDial(r, ok)
    \/ ReqWake(r)
    \/ ReqDispatch(r)

ConcNext == \E r \in Reqs : ReqStep(r)

ConcSpec == ConcInit /\ [][ConcNext]_vars

C31_ConnectionXorError ==
    /\ DialHostReturned =>
          \/ (destConn # 0 /\ err = 0)
          \/ (destConn = 0 /\ err # 0)
    /\ hijackHandler => destConn # 0

\* ------------------------------------------------------------------ origin connection claim
\* C32: an origin connection obtained by a successful dial is eventually
\* closed; stated for the case the claim names: the handler has returned
\* and the hijack callback is not invoked because the 200 response could
\* not be written to the client.
C32_NoLeakedOriginConn ==
    (pc = "done" /\ destConnState = "open") ~> (destConnState = "closed")

InProgress ==
    (IF pc \in {"dialLoop", "sleep", "dialReturned"} \cup HttpPathPcs THEN 1 ELSE 0)
    + Cardinality({r \in DOMAIN rpc : rpc[r] \in {"dialLoop", "sleep", "doTimeout"}})

C35_ResourcesReleasedOnce ==
    /\ \A b \in Buffers : released[b] <= 1
    /\ puts <= gets /\ gets <= 1
    /\ (client # 0) = (pc \in {"got", "did"})
    /\ (client # 0) => (gets = 1 /\ puts = 0)
    /\ pc \in HttpPathPcs =>
          (acquired = Buffers /\ \A b \in Buffers : released[b] = 0)
    /\ HttpReturned =>
          /\ acquired = {} /\ \A b \in Buffers : released[b] = 1
          /\ gets = 1 /\ puts = 1 /\ client = 0

C35_Witness ==
    /\ HttpReturned /\ upErr # 0 /\ respStatus = StatusBadGateway
    /\ acquired = {} /\ released["req"] = 1 /\ released["resp"] = 1
    /\ puts = 1

\* ------------------------------------------------------------------ bounded shutdown claim
\* C36: ShutdownWithContext returns by the deadline: once the context is
\* done the select can return the context's error, and once the shutdown of
\* the main server has delivered its result the select can return that
\* result, which is the only return while the context is not done.  The
\* shutdown of the metrics server is attempted before the shutdown of the
\* main server is started, which is started also when the former failed,
\* and the goroutine that ran the shutdown of the main server can always
\* send its result, also after ShutdownWithContext has returned.
C36_ShutdownReturnsByDeadline ==
    /\ mainPc \in {"returned", "exited"} =>
          shutdownErr \in {"nil", "context deadline exceeded"}
    /\ mainPc \in {"serving", "signalled", "metricsDone", "shutdown"} => shutdownErr = ""
    /\ shutdownErr = "nil" => srvShutdown = "sent"
    /\ shutdownErr = "context deadline exceeded" => ctxDone
    /\ (mainPc = "shutdown" /\ ctxDone) => ENABLED ShutdownTimesOut
    /\ (mainPc = "shutdown" /\ done # <<>>) => ENABLED ShutdownReturnsDone
    /\ (mainPc = "shutdown" /\ ~ctxDone) => ~ENABLED ShutdownTimesOut
    /\ mainPc = "signalled" => ENABLED MetricsShutdown(TRUE)
    /\ srvShutdown # "notstarted" => metricsServer # "running"
    /\ mainPc = "metricsDone" => ENABLED StartShutdown
    /\ (srvShutdown = "returned" /\ mainPc # "exited") => ENABLED ShutdownResultSent
    /\ Len(done) <= DoneCap

C36_Witness ==
    /\ mainPc = "returned" /\ shutdownErr = "context deadline exceeded"
    /\ srvShutdown = "sent" /\ done = <<"nil">>
    /\ metricsServer = "closeFailed"
====
